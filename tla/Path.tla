-------------------------------- MODULE Path --------------------------------
(***************************************************************************)
(* Names as the system calls treat them: argstr copies a path into the     *)
(* kernel (kernel/syscall/syscall.c), skipelem cuts it into the elements   *)
(* that namex walks, dirlookup compares an element with the entries of a   *)
(* directory and dirlink makes one (kernel/fs/fs.c).  Fs starts from the   *)
(* sequence of elements and from names that are equal or not; this is what *)
(* makes them so.                                                          *)
(*                                                                         *)
(* An array of characters is a sequence of fixed length.  What the stack   *)
(* held before is Junk, a character of no name.                            *)
(***************************************************************************)
LOCAL INSTANCE Integers
LOCAL INSTANCE Sequences
LOCAL INSTANCE SequencesExt

CONSTANTS DIRSIZ,   \* characters of an entry, 14 in the code
          MAXPATH   \* characters of a path in the kernel, 128 in the code

Slash == "/"
Nul   == "nul"
Junk  == "junk"

Field == 1 .. DIRSIZ

\* Where Stop first holds: what is in front of it, and what is left from there.
Upto(s, Stop(_)) ==
  LET i == SelectInSeq(s, Stop) IN IF i = 0 THEN s ELSE SubSeq(s, 1, i - 1)
Onward(s, Stop(_)) ==
  LET i == SelectInSeq(s, Stop) IN IF i = 0 THEN <<>> ELSE SubSeq(s, i, Len(s))

\* The characters of an array that count: those before the first Nul.
Text(array) == Upto(array, LAMBDA c : c = Nul)

\* At most MAXPATH - 1 characters of a user's string arrive, without an error.
Argstr(u) == IF Len(u) < MAXPATH THEN u ELSE SubSeq(u, 1, MAXPATH - 1)

-----------------------------------------------------------------------------
(* skipelem, and the loop of namex around it                               *)

SkipSlashes(s) == Onward(s, LAMBDA c : c # Slash)

\* The copy into name: cut at DIRSIZ, ended by Nul if it is shorter.
NameOf(elem, name) ==
  [i \in Field |-> IF i <= Len(elem) THEN elem[i]
                   ELSE IF i = Len(elem) + 1 THEN Nul ELSE name[i]]

\* One call, where it does not return 0: path is what it returns, name what it has
\* left in the array; walked are the elements so far.
Skipelem(st) ==
  LET s == SkipSlashes(st.path)
      name == NameOf(Upto(s, LAMBDA c : c = Slash), st.name)
  IN  [path |-> SkipSlashes(Onward(s, LAMBDA c : c = Slash)), name |-> name,
       walked |-> Append(st.walked, Text(name))]

\* namex calls it until nothing is left.
Namex(u) ==
  FoldLeft(LAMBDA st, c : IF SkipSlashes(st.path) = <<>> THEN st ELSE Skipelem(st),
           [path |-> u, name |-> [i \in Field |-> Junk], walked |-> <<>>], u)

-----------------------------------------------------------------------------
(* dirlookup and dirlink                                                   *)

\* The loop over DIRSIZ characters: the first difference, or the end of nm.
Match(de, nm) ==
  LET end == SelectInSeq(nm, LAMBDA c : c = Nul)
  IN  \A i \in 1 .. (IF end = 0 THEN DIRSIZ ELSE end) : de[i] = nm[i]

\* memset, then the characters.
Dirent(nm) == [i \in Field |-> IF i <= Len(Text(nm)) THEN nm[i] ELSE Nul]

-----------------------------------------------------------------------------
(* What they are for                                                       *)

\* The elements of a path: its maximal runs of other characters, cut at DIRSIZ.
Elements(u) ==
  LET runs == {r \in (1 .. Len(u)) \X (1 .. Len(u)) :
                /\ r[1] <= r[2] /\ \A k \in r[1] .. r[2] : u[k] # Slash
                /\ r[1] = 1 \/ u[r[1] - 1] = Slash
                /\ r[2] = Len(u) \/ u[r[2] + 1] = Slash}
      inorder == SetToSortSeq(runs, LAMBDA a, b : a[1] < b[1])
      cut(r) == IF r[2] - r[1] < DIRSIZ THEN r[2] ELSE r[1] + DIRSIZ - 1
  IN  [k \in DOMAIN inorder |-> SubSeq(u, inorder[k][1], cut(inorder[k]))]

\* However many slashes there are and wherever they are, namex walks the elements of
\* the path, whose last nameiparent leaves in name.
WalkIsSplit(u) ==
  LET end == Namex(u)
  IN  /\ end.walked = Elements(u)
      /\ end.walked # <<>> => Text(end.name) = Last(end.walked)

\* dirlookup finds the entry dirlink made by the name it was made for and by no other,
\* whatever is behind the end of the name (the warnings at fs.c:484 and 579).
LookupExact(u, v) ==
  Match(Dirent(Namex(u).name), Namex(v).name)
    <=> Text(Namex(u).name) = Text(Namex(v).name)
=============================================================================
