------------------------------ MODULE DeviceList ------------------------------
(***************************************************************************)
(* The doubly linked lists in which the HAL keeps its devices and file     *)
(* systems (alt_llist), and the searches through them.  A list is a record *)
(* of two functions, next and previous, over its head and all entries; an  *)
(* entry outside of every list has NULL pointers.                          *)
(***************************************************************************)
EXTENDS Integers, Sequences, SequencesExt, FiniteSets, FiniteSetsExt

\* The list head and the null pointer; an entry is the name of its device, in the parts
\* between slashes.
HEAD == <<"HEAD">>
NULL == <<"NULL">>

\* A list that holds at most one entry, and one that holds none.
Single(entries, e) ==
  [next     |-> [n \in entries \cup {HEAD} |-> IF n = HEAD THEN e ELSE IF n = e THEN HEAD ELSE NULL],
   previous |-> [n \in entries \cup {HEAD} |-> IF n = HEAD THEN e ELSE IF n = e THEN HEAD ELSE NULL]]
Empty(entries) == Single(entries, HEAD)

\* alt_llist_insert, statement by statement: list->next is read again after entry was
\* given its pointers.
Insert(list, entry) ==
  LET p1 == [list.previous EXCEPT ![entry] = HEAD]
      n1 == [list.next EXCEPT ![entry] = list.next[HEAD]]
  IN [previous |-> [p1 EXCEPT ![n1[HEAD]] = entry], next |-> [n1 EXCEPT ![HEAD] = entry]]

\* The first k entries that a search visits.
Visited(list, k) ==
  LET node[i \in 0 .. k] == IF i = 0 THEN HEAD ELSE list.next[node[i - 1]]
  IN [i \in 1 .. k |-> node[i]]

\* A search that finds nothing comes back to the head.
Ends(list) ==
  HEAD \in Range(Visited(list, Cardinality(DOMAIN list.next)))

\* The entries before the head comes round; of a list that ends.
Entries(list) ==
  LET walk == Visited(list, Cardinality(DOMAIN list.next))
  IN SubSeq(walk, 1, Min({i \in DOMAIN walk : walk[i] = HEAD}) - 1)

\* alt_find_dev: the first entry of exactly this name.
FindDev(list, name) == IF name \in Range(Entries(list)) THEN name ELSE NULL

\* alt_find_file: the first file system whose name is followed by a slash or the end.
FindFile(list, name) ==
  LET mounts == SelectSeq(Entries(list), LAMBDA fs : IsPrefix(fs, name))
  IN IF mounts = <<>> THEN NULL ELSE mounts[1]
===============================================================================
