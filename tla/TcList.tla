------------------------------- MODULE TcList -------------------------------
(* The doubly linked lists of libtc (test_client/list.h) as sequences of    *)
(* their entries, from head->next on.  list_add_tail is Append.             *)
EXTENDS Sequences, Naturals

Elements(s) == {s[i] : i \in DOMAIN s}

NoRepeat(s) == \A i, j \in DOMAIN s : s[i] = s[j] => i = j

(* list_del, list_del_init of an entry that is linked at most once.         *)
Delete(s, n) ==
    IF n \in Elements(s)
    THEN LET k == CHOOSE i \in 1 .. Len(s) : s[i] = n
         IN  [i \in 1 .. Len(s) - 1 |-> IF i < k THEN s[i] ELSE s[i + 1]]
    ELSE s
=============================================================================
