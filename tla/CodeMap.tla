------------------------------ MODULE CodeMap ------------------------------
(***************************************************************************)
(* What the port owes librecomp (src/sections.cpp, its head comment): a    *)
(* call to an address runs the code file announced there last, and a file  *)
(* that shares any address with a newer one is gone as a whole, at once.   *)
(***************************************************************************)
EXTENDS Integers

CONSTANTS
  Files,   \* code files
  Vram,    \* Vram[f]: the address f is linked at
  Size,    \* Size[f]: how many addresses it takes, bss excluded
  Funcs,   \* Funcs[f]: the addresses where its functions start
  Addr,
  None

VARIABLE target   \* target[a]: the file a call to a runs, or None

\* The half-open ranges [Vram, Vram + Size) meet.
Overlaps(f, g) == /\ Vram[f] < Vram[g] + Size[g]
                  /\ Vram[g] < Vram[f] + Size[f]

\* The map once f has been announced over map m.
Announced(m, f) ==
  [a \in Addr |->
     IF a \in Funcs[f] THEN f
     ELSE IF m[a] \in Files /\ Overlaps(m[a], f) THEN None
     ELSE m[a]]

Init == target = [a \in Addr |-> None]

Announce(f) == target' = Announced(target, f)

\* The process starts again.
Restart == target' = [a \in Addr |-> None]

Next == (\E f \in Files : Announce(f)) \/ Restart

Spec == Init /\ [][Next]_target
=============================================================================
