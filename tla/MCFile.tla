------------------------------- MODULE MCFile -------------------------------
(* Instances of File for TLC. *)
EXTENDS File

\* A path of five characters is cut to four, a name of four to three.
Chars == INSTANCE Path WITH DIRSIZ <- 3, MAXPATH <- 5

\* argstr, skipelem, namex, dirlookup and dirlink on every string of up to five
\* characters: what Fs and File take for granted of paths and names.
Strings == BoundedSeq({"f", "g", "/"}, 5)

ASSUME PathsAreSplit ==
  /\ \A u \in Strings : Chars!WalkIsSplit(Chars!Argstr(u))
  /\ \A u, v \in BoundedSeq({"f", "g", "/"}, 4) :
       Chars!Elements(u) # <<>> /\ Chars!Elements(v) # <<>> => Chars!LookupExact(u, v)

\* A name of one character is that character.  The root, two files in it, a file below
\* a file; with slashes in front, between and behind.
PathOf(u) == LET names == Chars!Namex(Chars!Argstr(u)).walked
             IN  [k \in DOMAIN names |-> names[k][1]]
MCPaths ==
  {PathOf(u) : u \in {<<".">>, <<"/", "f">>, <<"g", "/", "/">>, <<"f", "/", "/", "g">>}}
=============================================================================
