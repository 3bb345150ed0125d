----------------------------- MODULE FileStore -----------------------------
(***************************************************************************)
(* What a user expects of open, read, write and close (the comments of     *)
(* kernel/syscall/sysfile.c): named files that are sequences of bytes.     *)
(* Power may fail at any time: descriptors are lost, the rest is not.      *)
(***************************************************************************)
EXTENDS Integers, Sequences

CONSTANTS Names, Values, NOFILE,
          Inum,     \* the files there can be
          ROOTINO,  \* the directory, one of them
          NoInum,
          MAXFILE   \* the longest file

VARIABLES dir,      \* the file of each name, or NoInum
          content,  \* the bytes of each file
          fds,      \* each descriptor: [ino, off, readable, writable]
          writing,  \* the write in progress: [fd, v, n]
          result    \* what the last call returned

sys == <<dir, content, fds, writing, result>>

Fds == 0 .. NOFILE - 1
Closed == [ino |-> NoInum, off |-> 0, readable |-> FALSE, writable |-> FALSE]
IsOpen(d) == fds[d].ino # NoInum
NoWrite == [fd |-> -1, v |-> "none", n |-> 0]
Returned(n) == [n |-> n, cells |-> <<>>]

Init ==
  /\ dir = [name \in Names |-> NoInum]
  /\ content = [i \in Inum |-> <<>>]
  /\ fds = [d \in Fds |-> Closed]
  /\ writing = NoWrite /\ result = Returned(0)

\* open with O_CREAT gives the name a file of its own, which is empty.
Create(name) ==
  /\ dir[name] = NoInum
  /\ \E i \in Inum \ {ROOTINO} :
       /\ \A other \in Names : dir[other] # i
       /\ content[i] = <<>>
       /\ dir' = [dir EXCEPT ![name] = i]
  /\ UNCHANGED <<content, fds, writing, result>>

\* open returns the lowest descriptor, at offset 0; the directory is read-only.
Open(d) ==
  /\ ~IsOpen(d) /\ \A e \in 0 .. d - 1 : IsOpen(e)
  /\ result' = Returned(d)
  /\ \E i \in Inum, r, w \in BOOLEAN :
       /\ r \/ w
       /\ (i = ROOTINO /\ ~w) \/ \E name \in Names : dir[name] = i
       /\ fds' = [fds EXCEPT ![d] = [ino |-> i, off |-> 0, readable |-> r, writable |-> w]]
  /\ UNCHANGED writing

\* An error, or a write to the console.
NoEffect ==
  /\ result'.n \in Nat \cup {-1} /\ result' = Returned(result'.n)
  /\ UNCHANGED <<fds, writing>>

Close(d) ==
  /\ IsOpen(d) /\ fds' = [fds EXCEPT ![d] = Closed] /\ result' = Returned(0)
  /\ UNCHANGED writing

\* read returns the next bytes of the file.
Read(d) ==
  /\ IsOpen(d) /\ fds[d].readable
  /\ LET n == result'.n
     IN  /\ n \in 0 .. Len(content[fds[d].ino]) - fds[d].off
         /\ result'.cells = SubSeq(content[fds[d].ino], fds[d].off + 1, fds[d].off + n)
         /\ fds' = [fds EXCEPT ![d].off = @ + n]
  /\ UNCHANGED writing

WriteStarts(d) ==
  /\ writing = NoWrite /\ IsOpen(d) /\ fds[d].writable
  /\ \E v \in Values, n \in 0 .. MAXFILE - fds[d].off : writing' = [fd |-> d, v |-> v, n |-> n]
  /\ UNCHANGED <<fds, result>>

\* Bytes of the write's range become what is written; the file grows at once, to the
\* end of the write.
WriteGoesOn ==
  /\ writing # NoWrite
  /\ UNCHANGED <<dir, fds, writing, result>>
  /\ LET i     == fds[writing.fd].ino
         first == fds[writing.fd].off + 1
         last  == fds[writing.fd].off + writing.n
         old   == content[i]
         new   == content'[i]
     IN  /\ \A j \in Inum \ {i} : content'[j] = content[j]
         /\ Len(new) = Len(old) \/ (Len(new) = last /\ last > Len(old))
         /\ \A k \in DOMAIN new :
              \/ k \in first .. last /\ new[k] = writing.v
              \/ k \in DOMAIN old /\ new[k] = old[k]

\* It returns when all of it is on the disk.
WriteEnds ==
  /\ writing # NoWrite /\ writing' = NoWrite
  /\ LET d     == writing.fd
         cells == content[fds[d].ino]
     IN  /\ \A k \in 1 .. writing.n :
              fds[d].off + k <= Len(cells) /\ cells[fds[d].off + k] = writing.v
         /\ fds' = [fds EXCEPT ![d].off = @ + writing.n]
  /\ result' = Returned(writing.n)

PowerFails ==
  fds' = [d \in Fds |-> Closed] /\ writing' = NoWrite /\ result' = Returned(0)

\* What leaves names and contents alone.
Call ==
  \/ \E d \in Fds : Open(d) \/ Close(d) \/ Read(d) \/ WriteStarts(d)
  \/ NoEffect \/ WriteEnds \/ PowerFails

Next ==
  \/ UNCHANGED <<dir, content>> /\ Call
  \/ \E name \in Names : Create(name)
  \/ WriteGoesOn

Spec == Init /\ [][Next]_sys
=============================================================================
