---------------------------- MODULE TextsProofs ----------------------------
(***************************************************************************)
(* What parse_header() makes of a header line of any length.               *)
(*                                                                         *)
(* The other algorithms of Texts go through a string from one end to the   *)
(* other, which the provers cannot follow, and are left to TLC.            *)
(***************************************************************************)
EXTENDS Texts, SequenceTheorems, WellFoundedInduction, TLAPS

-----------------------------------------------------------------------------
(* The first and the last of some places                                   *)

LEMMA FirstPlace ==
  ASSUME NEW I, I \subseteq Nat, I # {}
  PROVE  Min(I) \in I /\ \A i \in I : Min(I) <= i
<1>1. PICK e \in I : \A i \in I : <<i, e>> \notin OpToRel(<, Nat)
  BY NatLessThanWellFounded, WFMin
<1>2. \A i \in I : ~(i < e)
  BY <1>1 DEF OpToRel
<1>3. \A i \in I : e <= i
  BY <1>2
<1>. QED BY <1>3 DEF Min

LEMMA LastPlace ==
  ASSUME NEW n \in Nat, NEW I, I \subseteq 1..n, I # {}
  PROVE  Max(I) \in I /\ \A i \in I : i <= Max(I)
<1>. DEFINE J == {n - i : i \in I}
<1>1. J \subseteq Nat /\ J # {}
  <2>1. \A i \in I : i \in Nat /\ n - i \in Nat
    OBVIOUS
  <2>. QED BY <2>1
<1>2. Min(J) \in J /\ \A j \in J : Min(J) <= j
  BY <1>1, FirstPlace
<1>3. PICK e \in I : Min(J) = n - e
  BY <1>2
<1>4. \A i \in I : n - e <= n - i
  BY <1>2, <1>3
<1>5. \A i \in I : i <= e
  BY <1>4
<1>. QED BY <1>5 DEF Max

-----------------------------------------------------------------------------
(* trim()                                                                  *)

\* It takes the spaces off both ends, and nothing else.
LEMMA TrimBare ==
  ASSUME NEW S, NEW s \in Seq(S)
  PROVE  Bare(s, trim(s))
<1>. DEFINE I == {i \in 1..Len(s) : s[i] # Space}
            first == SelectInSeq(s, LAMBDA c : c # Space)
            last  == SelectLastInSeq(s, LAMBDA c : c # Space)
<1>1. Len(s) \in Nat
  BY LenProperties
<1>2. CASE I = {}
  <2>1. trim(s) = <<>>
    BY <1>2 DEF trim, SelectInSeq
  <2>2. SubSeq(s, Len(s) + 1, Len(s)) = <<>>
    BY <1>1, SubSeqEmpty
  <2>3. \A k \in 1..Len(s) \cup Len(s) + 1..Len(s) : s[k] = Space
    BY <1>1, <1>2
  <2>. QED BY <1>1, <2>1, <2>2, <2>3 DEF Bare
<1>3. CASE I # {}
  <2>1. first = Min(I) /\ last = Max(I)
    BY <1>3 DEF SelectInSeq, SelectLastInSeq
  <2>2. /\ Min(I) \in I /\ \A i \in I : Min(I) <= i
        /\ Max(I) \in I /\ \A i \in I : i <= Max(I)
    <3>1. I \subseteq 1..Len(s) /\ I \subseteq Nat
      BY <1>1
    <3>. HIDE DEF I
    <3>. QED BY <1>1, <1>3, <3>1, FirstPlace, LastPlace
  <2>3. first \in 1..Len(s) /\ last \in 1..Len(s) /\ first <= last
        /\ s[first] # Space /\ s[last] # Space
    <3>. HIDE DEF first, last
    <3>. QED BY <1>1, <2>1, <2>2
  <2>4. trim(s) = SubSeq(s, first, last)
    <3>1. first # 0
      <4>. HIDE DEF first
      <4>. QED BY <1>1, <2>3
    <3>. QED BY <3>1 DEF trim
  <2>. HIDE DEF first, last
  <2>5. \A k \in 1..first - 1 \cup last + 1..Len(s) : s[k] = Space
    <3>1. \A k \in 1..Len(s) : s[k] # Space => first <= k /\ k <= last
      BY <2>1, <2>2
    <3>. QED BY <1>1, <2>3, <3>1
  <2>. HIDE DEF I
  <2>6. \A i \in first..last : s[i] \in S
    BY <1>1, <2>3, ElementOfSeq
  <2>7. /\ SubSeq(s, first, last) \in Seq(S)
        /\ Len(SubSeq(s, first, last)) = last - first + 1
        /\ \A i \in 1..last - first + 1 : SubSeq(s, first, last)[i] = s[first + i - 1]
    BY <1>1, <2>3, <2>6, SubSeqProperties
  <2>8. Head(trim(s)) # Space /\ Last(trim(s)) # Space
    <3>1. 1 \in 1..last - first + 1 /\ first + 1 - 1 = first
          /\ last - first + 1 \in 1..last - first + 1 /\ first + (last - first + 1) - 1 = last
      BY <1>1, <2>3
    <3>2. SubSeq(s, first, last)[1] = s[first] /\ SubSeq(s, first, last)[last - first + 1] = s[last]
      BY <2>7, <3>1
    <3>. QED BY <2>3, <2>4, <2>7, <3>2 DEF Head, Last
  <2>9. first - 1 \in 0..Len(s) /\ last \in 0..Len(s) /\ first - 1 + 1 = first
    BY <1>1, <2>3
  <2>. QED BY <2>4, <2>5, <2>8, <2>9 DEF Bare
<1>. QED BY <1>2, <1>3

-----------------------------------------------------------------------------
(* parse_header()                                                          *)

LEMMA Parts ==
  ASSUME NEW S, NEW s \in Seq(S), NEW i \in 2..Len(s), NEW old,
         \A j \in 1..i : s[j] = ":" <=> j = i
  PROVE  LET title == SubSeq(s, 1, i - 1)
             value == SubSeq(s, i + 1, Len(s))
         IN  parse_header(s, old) = [title |-> trim(title),
                                     value |-> IF value = <<>> THEN old ELSE trim(value)]
<1>. DEFINE I == {j \in 1..Len(s) : s[j] # ":"}
            E == {j \in 1..Len(s) : s[j] \in {":"}}
<1>1. Len(s) \in Nat /\ i \in 2..Len(s)
  BY LenProperties
<1>2. I # {} /\ Min(I) = 1
  <2>1. 1 \in I /\ \A j \in I : j \in Nat /\ 1 <= j
    BY <1>1
  <2>2. Min(I) = 1
    <3>. HIDE DEF I
    <3>1. Min(I) \in I /\ Min(I) <= 1
      BY <2>1, FirstPlace
    <3>. QED BY <2>1, <3>1
  <2>. QED BY <2>1, <2>2
<1>3. Index(s, {":"}) = i
  <2>1. i \in E /\ \A j \in E : j \in Nat /\ i <= j
    BY <1>1
  <2>2. Min(E) = i
    <3>. HIDE DEF E
    <3>1. Min(E) \in E /\ Min(E) <= i
      BY <2>1, FirstPlace
    <3>2. Min(E) \in Nat /\ i <= Min(E)
      BY <2>1, <3>1
    <3>. QED BY <1>1, <3>1, <3>2
  <2>3. SelectInSeq(s, LAMBDA c : c \in {":"}) = i
    BY <2>1, <2>2 DEF SelectInSeq
  <2>. QED BY <1>1, <2>3 DEF Index
<1>4. SubSeq(s, 1, Len(s)) = s
  BY SubSeqFull
<1>5. get_str_until(s, {":"}) = SubSeq(s, 1, i - 1)
  BY <1>3 DEF get_str_until
<1>6. At(s, {":"}) = SubSeq(s, i, Len(s))
  BY <1>3 DEF At
<1>7. SubSeq(s, i, Len(s)) \in Seq(S) /\ SubSeq(s, i, Len(s)) # <<>>
  <2>1. \A j \in i..Len(s) : s[j] \in S
    BY <1>1, ElementOfSeq
  <2>2. /\ SubSeq(s, i, Len(s)) \in Seq(S)
        /\ Len(SubSeq(s, i, Len(s))) = Len(s) - i + 1
    BY <1>1, <2>1, SubSeqProperties
  <2>3. Len(s) - i + 1 # 0 /\ Len(<<>>) = 0
    BY <1>1
  <2>. QED BY <2>2, <2>3
<1>8. Tail(SubSeq(s, i, Len(s))) = SubSeq(s, i + 1, Len(s))
  BY <1>1, HeadTailOfSubSeq
<1>9. After(s, {":"}) = SubSeq(s, i + 1, Len(s))
  BY <1>6, <1>7, <1>8 DEF After
<1>10. parse_header(s, old) = [title |-> trim(get_str_until(s, {":"})),
                              value |-> IF After(s, {":"}) = <<>> THEN old
                                        ELSE trim(After(s, {":"}))]
  <2>. DEFINE first == SelectInSeq(s, LAMBDA c : c # ":")
              rest(t) == IF At(t, {":"}) = <<>> THEN <<>> ELSE After(t, {":"})
              whole(k) == IF k = 0 THEN <<>> ELSE SubSeq(s, k, Len(s))
              made(t) == [title |-> trim(get_str_until(t, {":"})),
                          value |-> IF rest(t) = <<>> THEN old ELSE trim(rest(t))]
  <2>1. first = 1
    BY <1>2 DEF SelectInSeq
  <2>2. parse_header(s, old) = made(whole(first))
    BY Zenon DEF parse_header
  <2>. HIDE DEF first
  <2>3. whole(first) = s
    BY <1>4, <2>1
  <2>. HIDE DEF whole
  <2>4. made(s) = [title |-> trim(get_str_until(s, {":"})),
                   value |-> IF After(s, {":"}) = <<>> THEN old ELSE trim(After(s, {":"}))]
    BY <1>6, <1>7
  <2>. QED BY <2>2, <2>3, <2>4
<1>. QED BY <1>5, <1>9, <1>10

-----------------------------------------------------------------------------
(* Texts that are typed                                                    *)

Typed == kind = "header" => text \in Seq(Alphabet.header)

\* The first colon of a header line of any length separates its title from its
\* value, and the spaces are taken off the ends of both.
THEOREM AlwaysHeaderSplit == Spec => []HeaderSplit
<1>1. Init => Typed
  BY DEF Init, Typed
<1>2. Typed /\ [Type]_<<kind, text>> => Typed'
  <2>1. ASSUME Typed, Type PROVE Typed'
    BY <2>1, AppendProperties DEF Typed, Type
  <2>2. ASSUME Typed, UNCHANGED <<kind, text>> PROVE Typed'
    BY <2>2 DEF Typed
  <2>. QED BY <2>1, <2>2
<1>3. Typed => HeaderSplit
  <2>. SUFFICES ASSUME Typed, kind = "header", NEW i \in DOMAIN text,
                       \A j \in 1..i : text[j] = ":" <=> j = i,
                       ~Blank(SubSeq(text, 1, i - 1))
                PROVE  LET title == SubSeq(text, 1, i - 1)
                           value == SubSeq(text, i + 1, Len(text))
                           h     == parse_header(text, <<"old">>)
                       IN  /\ Bare(title, h.title)
                           /\ IF value = <<>> THEN h.value = <<"old">> ELSE Bare(value, h.value)
    BY DEF HeaderSplit
  <2>. DEFINE title == SubSeq(text, 1, i - 1)
              value == SubSeq(text, i + 1, Len(text))
              A == Alphabet.header
  <2>1. text \in Seq(A) /\ Len(text) \in Nat /\ i \in 1..Len(text)
    BY LenProperties DEF Typed
  <2>2. i \in 2..Len(text)
    <3>1. CASE i = 1
      <4>1. title = <<>>
        BY <2>1, <3>1, SubSeqEmpty
      <4>. QED BY <4>1 DEF Blank
    <3>. QED BY <2>1, <3>1
  <2>. HIDE DEF A
  <2>3. title \in Seq(A) /\ value \in Seq(A)
    <3>1. \A j \in 1..Len(text) : text[j] \in A
      BY <2>1, ElementOfSeq
    <3>. QED BY <2>1, <3>1, SubSeqProperties
  <2>4. parse_header(text, <<"old">>)
        = [title |-> trim(title), value |-> IF value = <<>> THEN <<"old">> ELSE trim(value)]
    BY <2>1, <2>2, Parts
  <2>5. Bare(title, trim(title)) /\ Bare(value, trim(value))
    BY <2>3, TrimBare
  <2>. QED BY <2>4, <2>5
<1>. QED BY <1>1, <1>2, <1>3, PTL DEF Spec
=============================================================================
