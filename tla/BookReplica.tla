---------------------------- MODULE BookReplica ----------------------------
(***************************************************************************)
(* What the clients of the gateway may rely on about the order book of a   *)
(* symbol: it is the exchange's as of the sequence number it is labelled   *)
(* with.  While it is live it only moves forward.  It may stop being live, *)
(* which nobody tells them: it then stays as it is until a snapshot        *)
(* replaces it, perhaps by an older one.  Changes of a book are numbered;  *)
(* a book is the set of the changes in it.                                 *)
(***************************************************************************)
EXTENDS Naturals

CONSTANT Symbols

VARIABLES
    head,               \* the exchange: changes of the book so far
    book, sequence,     \* what the clients have
    live                \* symbols whose book follows the exchange

Init ==
    /\ head = [s \in Symbols |-> 0]
    /\ book = [s \in Symbols |-> {}]
    /\ sequence = [s \in Symbols |-> 0]
    /\ live = {}

Show(s, q) == sequence'[s] = q /\ book'[s] = 1..q

Update(s) ==
    /\ s \in live /\ s \in live'
    /\ sequence'[s] \in sequence[s]..head'[s] /\ Show(s, sequence'[s])

Snapshot(s) ==
    /\ s \notin live /\ s \in live'
    /\ sequence'[s] \in 0..head'[s] /\ Show(s, sequence'[s])

Stale(s) == s \notin live' /\ book'[s] = book[s] /\ sequence'[s] = sequence[s]

Next == \A s \in Symbols : head[s] <= head'[s] /\ (Update(s) \/ Snapshot(s) \/ Stale(s))

Spec == Init /\ [][Next]_<<head, book, sequence, live>>
=============================================================================
