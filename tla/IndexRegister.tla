---------------------------- MODULE IndexRegister ----------------------------
(***************************************************************************)
(* What navigation may rely on, said without builds, files or rows: one    *)
(* register that names a complete set of documents.  A set of documents is *)
(* written once, whole, and never changes; the register moves on to a      *)
(* newer one, and until that move is settled it may return to where it was *)
(* and nowhere else.                                                       *)
(***************************************************************************)
EXTENDS Naturals

CONSTANTS
  Source,       \* what a document is made from
  MaybeBytes,   \* what a document may hold, for a source it may have none of
  MaxGen,       \* bound: generations
  Unwritten     \* a generation that is not there

VARIABLES
  content,      \* the documents of each generation
  live,         \* the generation readers use, 0 before the first
  settled       \* where the register was when it was last settled

Init ==
  /\ content = [n \in 1..MaxGen |-> Unwritten]
  /\ live = 0 /\ settled = 0

Complete(n) ==
  /\ content[n] = Unwritten
  /\ \E docs \in [Source -> MaybeBytes] : content' = [content EXCEPT ![n] = docs]
  /\ UNCHANGED <<live, settled>>

MoveTo(n) ==
  /\ live = settled /\ n > live /\ content[n] # Unwritten
  /\ live' = n
  /\ UNCHANGED <<content, settled>>

Settle ==
  /\ settled' = live
  /\ UNCHANGED <<content, live>>

Return ==
  /\ live' = settled
  /\ UNCHANGED <<content, settled>>

Next == (\E n \in 1..MaxGen : Complete(n) \/ MoveTo(n)) \/ Settle \/ Return

Spec == Init /\ [][Next]_<<content, live, settled>>
=============================================================================
