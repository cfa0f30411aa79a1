------------------------------- MODULE DataIdx -------------------------------
(***************************************************************************)
(* dataIdx.c: a table of the latest reading of each of at most             *)
(* def_MAX_DATA_IDX devices, in memory of the caller; an entry with id 0   *)
(* is empty.  The caller may clear an entry, which is how a device leaves  *)
(* the table.                                                              *)
(***************************************************************************)
EXTENDS Integers, Sequences, Functions

CONSTANTS
    def_MAX_DATA_IDX,
    Ids,           \* of devices, not 0
    Readings

ASSUME DataIdxAssumption == def_MAX_DATA_IDX \in Nat \ {0} /\ 0 \notin Ids

VARIABLES tContainer,
          place,   \* the result of the last call
          latest   \* what was accepted last from each device that has not been cleared since

idxVars == <<tContainer, place, latest>>

Slots == 0..(def_MAX_DATA_IDX - 1)
Empty == [id |-> 0, reading |-> 0]

InitIdx == /\ tContainer = [s \in Slots |-> Empty]
           /\ place = -1
           /\ latest = <<>>

-----------------------------------------------------------------------------
\* The first of some slots; -1 when there is none.
FirstOf(S) == IF S = {} THEN -1 ELSE CHOOSE s \in S : \A r \in S : s <= r

existId(Id) == FirstOf({s \in Slots : tContainer[s].id = Id})

\* As SlotFor, with the first entry that will do.
SlotForFirstSeen(Id) == FirstOf({s \in Slots : tContainer[s].id \in {0, Id}})

\* The id's own entry; when it has none the first empty one.
SlotFor(Id) == IF existId(Id) >= 0 THEN existId(Id) ELSE existId(0)

updateData(Id, r) ==
    /\ place' = SlotFor(Id)
    /\ IF SlotFor(Id) >= 0
       THEN /\ tContainer' = [tContainer EXCEPT ![SlotFor(Id)] = [id |-> Id, reading |-> r]]
            /\ latest' = [d \in {Id} \cup DOMAIN latest |-> IF d = Id THEN r ELSE latest[d]]
       ELSE UNCHANGED <<tContainer, latest>>

\* The owner of the table empties an entry.
Clear(s) == /\ tContainer[s].id # 0
            /\ latest' = Restrict(latest, DOMAIN latest \ {tContainer[s].id})
            /\ tContainer' = [tContainer EXCEPT ![s] = Empty]
            /\ UNCHANGED place

NextIdx == \/ \E Id \in Ids, r \in Readings : updateData(Id, r)
           \/ \E s \in Slots : Clear(s)

SpecIdx == InitIdx /\ [][NextIdx]_idxVars

-----------------------------------------------------------------------------
\* The table holds for each device that was accepted and not cleared its latest reading, in one entry and
\* where existId finds it, and nothing else, whatever entries were emptied before and between; and a
\* reading is refused only when the table is full of other devices.
HoldsTheLatest ==
    /\ \A Id \in Ids : existId(Id) >= 0 <=> Id \in DOMAIN latest
    /\ \A Id \in DOMAIN latest : tContainer[existId(Id)].reading = latest[Id]
    /\ \A s \in Slots : tContainer[s].id # 0 => existId(tContainer[s].id) = s
    /\ \A Id \in Ids : SlotFor(Id) < 0 => \A s \in Slots : tContainer[s].id \in DOMAIN latest \ {Id}
=============================================================================
