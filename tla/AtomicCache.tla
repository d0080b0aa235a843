------------------------------ MODULE AtomicCache -------------------------------
(***************************************************************************)
(* What ProjectCache promises the runs that share a directory: an entry    *)
(* appears at once, whole, and a load finds the last one or a miss.        *)
(***************************************************************************)
CONSTANTS Processes, Keys, Entries, Miss

VARIABLES
    entries,   \* the entry under each key, or Miss
    found      \* what each process last loaded

Put(k, e) ==
    /\ entries' = [entries EXCEPT ![k] = e]
    /\ UNCHANGED found

Get(p, k) ==
    /\ found' = [found EXCEPT ![p] = <<k, entries[k]>>]
    /\ UNCHANGED entries

AtomicInit ==
    /\ entries = [k \in Keys |-> Miss]
    /\ found = [p \in Processes |-> Miss]

AtomicNext ==
    \/ \E k \in Keys, e \in Entries : Put(k, e)
    \/ \E p \in Processes, k \in Keys : Get(p, k)

AtomicSpec == AtomicInit /\ [][AtomicNext]_<<entries, found>>
=============================================================================
