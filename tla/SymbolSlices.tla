---------------------------- MODULE SymbolSlices ----------------------------
(***************************************************************************)
(* The symbols of gateway/shared.hpp, which Rest and the clients fill and  *)
(* MarketData streams read.  core::Symbols cuts the list into slices of    *)
(* max_subscriptions_per_stream; stream i takes slice i.                   *)
(***************************************************************************)
EXTENDS Naturals, Sequences, FiniteSets, SequencesExt

CONSTANTS
    Symbols,            \* the symbols of the exchange
    SliceSize           \* settings.ws.max_subscriptions_per_stream

ASSUME SliceAssumption == IsFiniteSet(Symbols) /\ SliceSize \in Nat \ {0}

VARIABLES
    symbols,            \* shared_.symbols
    all_symbols         \* shared_.all_symbols

symbolVars == <<symbols, all_symbols>>

SymbolsInit == symbols = <<>> /\ all_symbols = {}

SymbolsTypeOK == symbols \in Seq(Symbols) /\ all_symbols \in SUBSET Symbols

(* How many slices n symbols fill, the last one perhaps in part *)
Slices(n) == (n + SliceSize - 1) \div SliceSize

(* The streams there can ever be *)
Streams == 1..Slices(Cardinality(Symbols))

InSlice(i, k) == (i - 1) * SliceSize < k /\ k <= i * SliceSize

(* get_slice(i, from): the positions of slice i past from, and the slice *)
SliceBegin(i, from) ==
    IF from > (i - 1) * SliceSize THEN from + 1 ELSE (i - 1) * SliceSize + 1

SliceEnd(list, i) == IF i * SliceSize < Len(list) THEN i * SliceSize ELSE Len(list)

Slice(list, i, from) == SubSeq(list, SliceBegin(i, from), SliceEnd(list, i))

(* mutant: names the gateway knows are added again *)
AddListedAgain(listed) ==
    \E new \in SetToSeqs(listed) :
        /\ symbols' = symbols \o new
        /\ all_symbols' = all_symbols \cup listed

(* What Rest and Controller do with a list of names, which the exchange or  *)
(* a client gives in any order: those that all_symbols lacks are added.     *)
Add(listed) ==
    \E new \in SetToSeqs(listed \ all_symbols) :
        /\ symbols' = symbols \o new
        /\ all_symbols' = all_symbols \cup listed
=============================================================================
