---------------------------- MODULE TcListLemmas ----------------------------
(* What adding to a list, taking its first entry and deleting an entry do   *)
(* to the entries it holds.  The proofs about every user of lists cite it.  *)
EXTENDS TcList, SequenceTheorems, TLAPS

(* What a list holds is of the list's type.                                *)
LEMMA ElementsInSet ==
    ASSUME NEW S, NEW s \in Seq(S)
    PROVE  Elements(s) \subseteq S
BY ElementOfSeq, LenProperties DEF Elements

(* list_add_tail adds one element and repeats none it did not have.        *)
LEMMA AppendElements ==
    ASSUME NEW S, NEW s \in Seq(S), NEW e \in S
    PROVE  /\ Append(s, e) \in Seq(S)
           /\ Len(Append(s, e)) = Len(s) + 1
           /\ Elements(Append(s, e)) = Elements(s) \cup {e}
           /\ NoRepeat(s) /\ e \notin Elements(s) => NoRepeat(Append(s, e))
<1> DEFINE a == Append(s, e)
<1>1. /\ a \in Seq(S)
      /\ Len(a) = Len(s) + 1
      /\ \A i \in 1 .. Len(s) : a[i] = s[i]
      /\ a[Len(s) + 1] = e
  BY AppendProperties
<1>2. /\ Len(s) \in Nat
      /\ DOMAIN s = 1 .. Len(s)
      /\ DOMAIN a = 1 .. Len(s) + 1
  BY <1>1, LenProperties
<1>3. Elements(a) = Elements(s) \cup {e}
  BY <1>1, <1>2 DEF Elements
<1>4. ASSUME NoRepeat(s), e \notin Elements(s)
      PROVE  NoRepeat(a)
  BY <1>1, <1>2, <1>4 DEF NoRepeat, Elements
<1> QED
  BY <1>1, <1>3, <1>4

(* Taking the first node of a list leaves the others, in the same order.   *)
LEMMA PopElements ==
    ASSUME NEW S, NEW s \in Seq(S), s # <<>>
    PROVE  /\ Head(s) \in S
           /\ Tail(s) \in Seq(S)
           /\ Elements(s) = Elements(Tail(s)) \cup {Head(s)}
           /\ NoRepeat(s) => NoRepeat(Tail(s)) /\ Head(s) \notin Elements(Tail(s))
<1>1. /\ Head(s) = s[1]
      /\ Head(s) \in S
      /\ Tail(s) \in Seq(S)
      /\ Len(Tail(s)) = Len(s) - 1
      /\ \A i \in 1 .. Len(Tail(s)) : Tail(s)[i] = s[i + 1]
  BY HeadTailProperties
<1>2. /\ Len(s) \in Nat \ {0}
      /\ DOMAIN s = 1 .. Len(s)
      /\ DOMAIN Tail(s) = 1 .. Len(s) - 1
  BY <1>1, LenProperties, EmptySeq
<1>3. Elements(s) = Elements(Tail(s)) \cup {Head(s)}
  <2>1. ASSUME NEW x \in Elements(s)
        PROVE  x \in Elements(Tail(s)) \cup {Head(s)}
    <3>1. PICK i \in 1 .. Len(s) : x = s[i]
      BY <1>2 DEF Elements
    <3>2. CASE i = 1
      BY <3>1, <3>2, <1>1
    <3>3. CASE i # 1
      <4>1. i - 1 \in 1 .. Len(s) - 1 /\ Tail(s)[i - 1] = x
        BY <3>1, <3>3, <1>1, <1>2
      <4> QED
        BY <4>1, <1>2 DEF Elements
    <3> QED
      BY <3>2, <3>3
  <2>2. ASSUME NEW x \in Elements(Tail(s)) \cup {Head(s)}
        PROVE  x \in Elements(s)
    BY <1>1, <1>2, <2>2 DEF Elements
  <2> QED
    BY <2>1, <2>2
<1>4. ASSUME NoRepeat(s)
      PROVE  NoRepeat(Tail(s)) /\ Head(s) \notin Elements(Tail(s))
  BY <1>1, <1>2, <1>4 DEF NoRepeat, Elements
<1> QED
  BY <1>1, <1>3, <1>4

(* list_del takes out the one node it is given and nothing else.           *)
LEMMA DeleteElements ==
    ASSUME NEW S, NEW s \in Seq(S), NEW e
    PROVE  /\ Delete(s, e) \in Seq(S)
           /\ e \in Elements(s) => Len(Delete(s, e)) = Len(s) - 1
           /\ Elements(Delete(s, e)) \subseteq Elements(s)
           /\ Elements(s) \subseteq Elements(Delete(s, e)) \cup {e}
           /\ NoRepeat(s) => NoRepeat(Delete(s, e)) /\ e \notin Elements(Delete(s, e))
<1>1. Len(s) \in Nat /\ DOMAIN s = 1 .. Len(s) /\ \A i \in 1 .. Len(s) : s[i] \in S
  BY LenProperties, ElementOfSeq
<1>2. CASE e \notin Elements(s)
  BY <1>2 DEF Delete
<1>3. CASE e \in Elements(s)
  <2> DEFINE k == CHOOSE i \in 1 .. Len(s) : s[i] = e
             d == [i \in 1 .. Len(s) - 1 |-> IF i < k THEN s[i] ELSE s[i + 1]]
  <2>1. k \in 1 .. Len(s) /\ s[k] = e
    BY <1>1, <1>3 DEF Elements
  <2>2. Delete(s, e) = d
    BY <1>3 DEF Delete
  <2> HIDE DEF k
  <2>3. Len(s) - 1 \in Nat
    BY <1>1, <2>1
  <2>4. d \in [1 .. Len(s) - 1 -> S]
    BY <1>1, <2>1
  <2>5. d \in Seq(S)
    BY <2>3, <2>4, SeqDef
  <2>6. Len(d) = Len(s) - 1
    BY <2>3, <2>4, <2>5, LenProperties
  <2>7. Elements(d) \subseteq Elements(s)
    BY <1>1, <2>1 DEF Elements
  <2>8. ASSUME NEW x \in Elements(s), x # e
        PROVE  x \in Elements(d)
    <3>1. PICK i \in 1 .. Len(s) : s[i] = x
      BY <1>1 DEF Elements
    <3>2. CASE i < k
      <4>1. i \in 1 .. Len(s) - 1 /\ d[i] = x
        BY <1>1, <2>1, <3>1, <3>2
      <4> QED
        BY <4>1 DEF Elements
    <3>3. CASE i > k
      <4>1. i - 1 \in 1 .. Len(s) - 1 /\ d[i - 1] = x
        BY <1>1, <2>1, <3>1, <3>3
      <4> QED
        BY <4>1 DEF Elements
    <3> QED
      BY <1>1, <2>1, <2>8, <3>1, <3>2, <3>3
  <2>9. ASSUME NoRepeat(s)
        PROVE  NoRepeat(d) /\ e \notin Elements(d)
    BY <1>1, <2>1, <2>9 DEF NoRepeat, Elements
  <2> QED
    BY <2>2, <2>5, <2>7, <2>8, <2>9, <2>6
<1> QED
  BY <1>2, <1>3
=============================================================================
