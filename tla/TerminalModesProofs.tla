------------------------- MODULE TerminalModesProofs -------------------------
(***************************************************************************)
(* The invariants of TerminalModes, for every terminal, line, mask, number *)
(* of sessions and backlog of sequences.                                   *)
(*                                                                         *)
(* First what a terminal makes of a sequence of sequences (Settle), by     *)
(* induction over a set of numbers; then the inductive invariant, part by  *)
(* part.                                                                   *)
(***************************************************************************)
EXTENDS TerminalModes, SequenceTheorems, FiniteSetTheorems, WellFoundedInduction, TLAPS

-----------------------------------------------------------------------------
\* Induction over the numbers up to n, as a fact about a set.
LEMMA EveryNumber ==
  ASSUME NEW n \in Nat, NEW S,
         0 \in S,
         \A k \in 0..(n - 1) : k \in S => k + 1 \in S
  PROVE  0..n \subseteq S
<1> DEFINE missing == (0..n) \ S
<1> SUFFICES ASSUME missing # {} PROVE FALSE
  OBVIOUS
<1>1. missing \in SUBSET Nat
  OBVIOUS
<1>2. PICK m \in missing : \A j \in missing : ~(<<j, m>> \in OpToRel(<, Nat))
  BY <1>1, NatLessThanWellFounded, WFMin
<1>a. m \in 0..n /\ m \notin S
  OBVIOUS
<1>3. m # 0 /\ m \in Nat /\ m <= n
  BY <1>a
<1>4. m - 1 \in Nat /\ m - 1 \in 0..(n - 1)
  BY <1>3
<1>5. m - 1 \notin missing
  <2>1. <<m - 1, m>> \in Nat \X Nat /\ m - 1 < m
    BY <1>3, <1>4
  <2>2. <<m - 1, m>> \in OpToRel(<, Nat)
    BY <2>1 DEF OpToRel
  <2> QED
    BY <1>2, <2>2
<1>6. m - 1 \in S
  BY <1>4, <1>5
<1>7. m - 1 + 1 \in S
  BY <1>4, <1>6
<1> QED
  BY <1>a, <1>3, <1>7

\* Stages(t, w) is what its recursive definition says.
LEMMA StagesDef ==
  ASSUME NEW t, NEW w, Len(w) \in Nat
  PROVE  /\ Stages(t, w)[0] = t
         /\ \A n \in 1..Len(w) : Stages(t, w)[n] = Obey(Stages(t, w)[n - 1], w[n])
<1> DEFINE step(f, n) == IF n = 0 THEN t ELSE Obey(f[n - 1], w[n])
           S == {n \in 0..Len(w) : \E f : f = [i \in 0..n |-> step(f, i)]}
<1>1. 0 \in S
  <2> DEFINE f == [i \in 0..0 |-> t]
  <2>1. f = [i \in 0..0 |-> step(f, i)]
    OBVIOUS
  <2>2. \E g : g = [i \in 0..0 |-> step(g, i)]
    BY <2>1
  <2> QED
    BY <2>2
<1>2. ASSUME NEW k \in 0..(Len(w) - 1), k \in S
      PROVE  k + 1 \in S
  <2>1. PICK f : f = [i \in 0..k |-> step(f, i)]
    BY <1>2
  <2> DEFINE g == [i \in 0..(k + 1) |-> IF i = k + 1 THEN Obey(f[k], w[k + 1]) ELSE f[i]]
  <2>2. \A i \in 0..(k + 1) : g[i] = step(g, i)
    <3> TAKE i \in 0..(k + 1)
    <3>1. CASE i = k + 1
      <4>1. g[i - 1] = f[k] /\ g[i] = Obey(f[k], w[k + 1])
        BY <3>1
      <4> QED
        BY <3>1, <4>1
    <3>2. CASE i # k + 1
      <4>1. i \in 0..k
        BY <3>2
      <4>2. g[i] = f[i] /\ (i # 0 => g[i - 1] = f[i - 1])
        BY <4>1
      <4>3. f[i] = step(f, i)
        BY <2>1, <4>1
      <4> QED
        BY <4>2, <4>3
    <3> QED
      BY <3>1, <3>2
  <2>3. g = [i \in 0..(k + 1) |-> step(g, i)]
    BY <2>2
  <2> HIDE DEF g
  <2>4. \E h : h = [i \in 0..(k + 1) |-> step(h, i)]
    BY <2>3
  <2> QED
    BY <2>4
<1>3. Len(w) \in S
  <2> HIDE DEF S
  <2>1. 0..Len(w) \subseteq S
    BY <1>1, <1>2, EveryNumber
  <2> QED
    BY <2>1
<1>4. PICK f : f = [i \in 0..Len(w) |-> IF i = 0 THEN t ELSE Obey(f[i - 1], w[i])]
  BY <1>3
<1>5. Stages(t, w) = [i \in 0..Len(w) |-> IF i = 0 THEN t ELSE Obey(Stages(t, w)[i - 1], w[i])]
  BY <1>4 DEF Stages
<1> QED
  BY <1>5
-----------------------------------------------------------------------------
\* A sequence of commands has a length and commands in it.
LEMMA CommandsTyped ==
  ASSUME NEW w \in Seq(Command)
  PROVE  Len(w) \in Nat /\ \A i \in 1..Len(w) : w[i] \in Command
BY ElementOfSeq, LenProperties

\* Front drops the last element.
LEMMA FrontOfKitty ==
  ASSUME NEW k \in Seq({"5", "15"}), k # <<>>
  PROVE  /\ Front(k) \in Seq({"5", "15"}) /\ Len(k) \in Nat /\ Len(k) > 0
         /\ Len(Front(k)) = Len(k) - 1
         /\ \A i \in 1..(Len(k) - 1) : Front(k)[i] = k[i]
<1>1. Len(k) \in Nat /\ Len(k) > 0 /\ \A i \in 1..Len(k) : k[i] \in {"5", "15"}
  BY ElementOfSeq, LenProperties, EmptySeq
<1>2. PICK n \in Nat : n = Len(k) - 1
  BY <1>1
<1>3. Front(k) = SubSeq(k, 1, n)
  BY <1>2 DEF Front
<1>4. \A i \in 1..n : k[i] \in {"5", "15"}
  BY <1>1, <1>2
<1>5. /\ SubSeq(k, 1, n) \in Seq({"5", "15"})
      /\ Len(SubSeq(k, 1, n)) = IF 1 <= n THEN n - 1 + 1 ELSE 0
      /\ \A i \in 1..(n - 1 + 1) : SubSeq(k, 1, n)[i] = k[1 + i - 1]
  BY <1>4, SubSeqProperties
<1>6. Len(SubSeq(k, 1, n)) = n /\ \A i \in 1..n : SubSeq(k, 1, n)[i] = k[i]
  BY <1>5
<1> QED
  BY <1>1, <1>2, <1>3, <1>5, <1>6

\* The kinds of sequences, and that they can be told apart.
LEMMA CommandsDiffer ==
  /\ \A l, m \in Modes :
       Set(l) # Reset(m) /\ (Set(l) = Set(m) <=> l = m) /\ (Reset(l) = Reset(m) <=> l = m)
  /\ \A m \in Modes : Set(m) \notin {<<"push", "15">>, <<"pop", "1">>, <<"report", "5">>}
  /\ \A m \in Modes : Reset(m) \notin {<<"push", "15">>, <<"pop", "1">>, <<"report", "5">>}
<1>1. \A l, m \in Modes :
        Set(l) # Reset(m) /\ (Set(l) = Set(m) <=> l = m) /\ (Reset(l) = Reset(m) <=> l = m)
  BY DEF Set, Reset
<1>2. \A m \in Modes : Set(m) \notin {<<"push", "15">>, <<"pop", "1">>, <<"report", "5">>}
  BY DEF Set
<1>3. \A m \in Modes : Reset(m) \notin {<<"push", "15">>, <<"pop", "1">>, <<"report", "5">>}
  BY DEF Reset
<1> QED
  BY <1>1, <1>2, <1>3

LEMMA CommandKinds ==
  ASSUME NEW s \in Command
  PROVE  \/ \E m \in Modes : s = Set(m) \/ s = Reset(m)
         \/ s \in {<<"push", "15">>, <<"pop", "1">>, <<"report", "5">>}
BY DEF Command, Set, Reset

\* What a terminal makes of one sequence, by its kind.
LEMMA ObeySays ==
  ASSUME NEW t \in Terminal, NEW s \in Command
  PROVE  /\ Obey(t, s) \in Terminal
         /\ \A m \in Modes : s = Set(m) =>
              Obey(t, s).modes = t.modes \union {m} /\ Obey(t, s).kitty = t.kitty
         /\ \A m \in Modes : s = Reset(m) =>
              Obey(t, s).modes = t.modes \ {m} /\ Obey(t, s).kitty = t.kitty
         /\ s = <<"push", "15">> =>
              Obey(t, s).modes = t.modes /\ Obey(t, s).kitty = Append(t.kitty, "15")
         /\ s = <<"pop", "1">> =>
              /\ Obey(t, s).modes = t.modes
              /\ Obey(t, s).kitty = IF t.kitty = <<>> THEN t.kitty ELSE Front(t.kitty)
         /\ s = <<"report", "5">> => Obey(t, s) = t
<1>0. t.modes \in SUBSET Modes /\ t.kitty \in Seq({"5", "15"})
  BY DEF Terminal
<1>k. Append(t.kitty, "15") \in Seq({"5", "15"})
  BY <1>0
<1>f. t.kitty # <<>> => Front(t.kitty) \in Seq({"5", "15"})
  BY <1>0, FrontOfKitty
<1>1. ASSUME NEW m \in Modes, s = Set(m)
      PROVE  Obey(t, s) = [t EXCEPT !.modes = t.modes \union {m}]
  BY <1>1 DEF Obey, Set
<1>2. ASSUME NEW m \in Modes, s = Reset(m)
      PROVE  Obey(t, s) = [t EXCEPT !.modes = t.modes \ {m}]
  BY <1>2 DEF Obey, Reset
<1>3. ASSUME s = <<"push", "15">>
      PROVE  Obey(t, s) = [t EXCEPT !.kitty = Append(t.kitty, "15")]
  BY <1>3 DEF Obey
<1>4. ASSUME s = <<"pop", "1">>
      PROVE  Obey(t, s) = [t EXCEPT !.kitty = IF t.kitty = <<>> THEN t.kitty ELSE Front(t.kitty)]
  BY <1>4 DEF Obey
<1>5. ASSUME s = <<"report", "5">>
      PROVE  Obey(t, s) = t
  BY <1>5 DEF Obey
<1>6. \/ \E m \in Modes : s = Set(m) \/ s = Reset(m)
      \/ s \in {<<"push", "15">>, <<"pop", "1">>, <<"report", "5">>}
  BY CommandKinds
<1>7. Obey(t, s) \in Terminal
  <2>1. ASSUME NEW m \in Modes, s = Set(m) PROVE Obey(t, s) \in Terminal
    BY <2>1, <1>1, <1>0 DEF Terminal
  <2>2. ASSUME NEW m \in Modes, s = Reset(m) PROVE Obey(t, s) \in Terminal
    BY <2>2, <1>2, <1>0 DEF Terminal
  <2>3. ASSUME s = <<"push", "15">> PROVE Obey(t, s) \in Terminal
    BY <2>3, <1>3, <1>0, <1>k DEF Terminal
  <2>4. ASSUME s = <<"pop", "1">> PROVE Obey(t, s) \in Terminal
    BY <2>4, <1>4, <1>0, <1>f DEF Terminal
  <2>5. ASSUME s = <<"report", "5">> PROVE Obey(t, s) \in Terminal
    BY <2>5, <1>5
  <2> QED
    BY <1>6, <2>1, <2>2, <2>3, <2>4, <2>5
<1>8. /\ \A m \in Modes : s = Set(m) =>
           Obey(t, s).modes = t.modes \union {m} /\ Obey(t, s).kitty = t.kitty
      /\ \A m \in Modes : s = Reset(m) =>
           Obey(t, s).modes = t.modes \ {m} /\ Obey(t, s).kitty = t.kitty
  BY <1>1, <1>2 DEF Terminal
<1>9. /\ s = <<"push", "15">> =>
           Obey(t, s).modes = t.modes /\ Obey(t, s).kitty = Append(t.kitty, "15")
      /\ s = <<"pop", "1">> =>
           /\ Obey(t, s).modes = t.modes
           /\ Obey(t, s).kitty = IF t.kitty = <<>> THEN t.kitty ELSE Front(t.kitty)
  BY <1>3, <1>4 DEF Terminal
<1> QED
  BY <1>5, <1>7, <1>8, <1>9

LEMMA ObeySet ==
  ASSUME NEW t \in Terminal, NEW s \in Command, NEW m \in Modes, s = Set(m)
  PROVE  Obey(t, s).modes = t.modes \union {m}
<1>1. Obey(t, s) = [t EXCEPT !.modes = t.modes \union {m}]
  BY DEF Obey, Set
<1> QED
  BY <1>1 DEF Terminal

LEMMA ObeyReset ==
  ASSUME NEW t \in Terminal, NEW s \in Command, NEW m \in Modes, s = Reset(m)
  PROVE  Obey(t, s).modes = t.modes \ {m}
<1>1. Obey(t, s) = [t EXCEPT !.modes = t.modes \ {m}]
  BY DEF Obey, Reset
<1> QED
  BY <1>1 DEF Terminal

\* A terminal stays one, whatever it is sent.
LEMMA StagesTyped ==
  ASSUME NEW t \in Terminal, NEW w \in Seq(Command)
  PROVE  \A n \in 0..Len(w) : Stages(t, w)[n] \in Terminal
<1>0. Len(w) \in Nat /\ \A i \in 1..Len(w) : w[i] \in Command
  BY CommandsTyped
<1> DEFINE S == {n \in 0..Len(w) : Stages(t, w)[n] \in Terminal}
<1>1. 0 \in S
  BY <1>0, StagesDef
<1>2. ASSUME NEW k \in 0..(Len(w) - 1), k \in S PROVE k + 1 \in S
  <2>1. k + 1 \in 1..Len(w) /\ k + 1 - 1 = k
    BY <1>0
  <2>2. Stages(t, w)[k + 1] = Obey(Stages(t, w)[k], w[k + 1])
    BY <2>1, <1>0, StagesDef
  <2> QED
    BY <1>0, <1>2, <2>1, <2>2, ObeySays
<1>3. 0..Len(w) \subseteq S
  <2> HIDE DEF S
  <2> QED
    BY <1>0, <1>1, <1>2, EveryNumber
<1> QED
  BY <1>3

LEMMA SettleTyped ==
  ASSUME NEW t \in Terminal, NEW w \in Seq(Command)
  PROVE  Settle(t, w) \in Terminal
BY StagesTyped, CommandsTyped DEF Settle

LEMMA SettleNothing ==
  ASSUME NEW t
  PROVE  Settle(t, <<>>) = t
<1>1. Len(<<>>) = 0
  OBVIOUS
<1>2. Stages(t, <<>>)[0] = t
  BY <1>1, StagesDef
<1> QED
  BY <1>1, <1>2 DEF Settle

LEMMA SettleOne ==
  ASSUME NEW t, NEW s
  PROVE  Settle(t, <<s>>) = Obey(t, s)
<1>1. Len(<<s>>) = 1 /\ <<s>>[1] = s
  OBVIOUS
<1>2. Stages(t, <<s>>)[1] = Obey(Stages(t, <<s>>)[0], <<s>>[1]) /\ Stages(t, <<s>>)[0] = t
  <2>1. 1 \in 1..Len(<<s>>) /\ Len(<<s>>) \in Nat /\ 1 - 1 = 0
    BY <1>1
  <2> HIDE DEF Settle
  <2> QED
    BY <2>1, StagesDef
<1> QED
  BY <1>1, <1>2 DEF Settle

\* It makes no difference whether sequences come at once or in two parts.
LEMMA SettleConcat ==
  ASSUME NEW t, NEW v \in Seq(Command), NEW w \in Seq(Command)
  PROVE  Settle(t, v \o w) = Settle(Settle(t, v), w)
<1> DEFINE vw == v \o w
<1>0. /\ Len(v) \in Nat /\ Len(w) \in Nat
      /\ Len(vw) = Len(v) + Len(w)
      /\ \A i \in 1..Len(v) + Len(w) : vw[i] = IF i <= Len(v) THEN v[i] ELSE w[i - Len(v)]
  BY ConcatProperties, LenProperties
<1> HIDE DEF vw
<1>1. /\ Stages(t, v)[0] = t
      /\ \A n \in 1..Len(v) : Stages(t, v)[n] = Obey(Stages(t, v)[n - 1], v[n])
      /\ Stages(t, vw)[0] = t
      /\ \A n \in 1..Len(vw) : Stages(t, vw)[n] = Obey(Stages(t, vw)[n - 1], vw[n])
  <2>1. Len(vw) \in Nat
    BY <1>0
  <2>2. /\ Stages(t, vw)[0] = t
        /\ \A n \in 1..Len(vw) : Stages(t, vw)[n] = Obey(Stages(t, vw)[n - 1], vw[n])
    BY <2>1, StagesDef
  <2>3. /\ Stages(t, v)[0] = t
        /\ \A n \in 1..Len(v) : Stages(t, v)[n] = Obey(Stages(t, v)[n - 1], v[n])
    BY <1>0, StagesDef
  <2> QED
    BY <2>2, <2>3
<1> DEFINE S == {n \in 0..Len(v) : Stages(t, vw)[n] = Stages(t, v)[n]}
<1>2. 0 \in S
  BY <1>0, <1>1
<1>3. ASSUME NEW k \in 0..(Len(v) - 1), k \in S PROVE k + 1 \in S
  <2>1. k + 1 \in 1..Len(v) /\ k + 1 - 1 = k /\ k + 1 \in 1..Len(vw) /\ vw[k + 1] = v[k + 1]
    BY <1>0
  <2> QED
    BY <1>1, <1>3, <2>1
<1>4. Stages(t, vw)[Len(v)] = Settle(t, v)
  <2>1. 0..Len(v) \subseteq S
    <3> HIDE DEF S
    <3> QED
      BY <1>0, <1>2, <1>3, EveryNumber
  <2> QED
    BY <2>1, <1>0 DEF Settle
<1> DEFINE u == Settle(t, v)
<1> HIDE DEF u
<1>5. /\ Stages(u, w)[0] = u
      /\ \A n \in 1..Len(w) : Stages(u, w)[n] = Obey(Stages(u, w)[n - 1], w[n])
  BY <1>0, StagesDef
<1> DEFINE T == {n \in 0..Len(w) : Stages(t, vw)[Len(v) + n] = Stages(u, w)[n]}
<1>6. 0 \in T
  BY <1>0, <1>4, <1>5 DEF u
<1>7. ASSUME NEW k \in 0..(Len(w) - 1), k \in T PROVE k + 1 \in T
  <2>1. k + 1 \in 1..Len(w) /\ k + 1 - 1 = k
    BY <1>0
  <2>2. /\ Len(v) + (k + 1) \in 1..Len(vw)
        /\ Len(v) + (k + 1) - 1 = Len(v) + k
        /\ vw[Len(v) + (k + 1)] = w[k + 1]
    <3>1. Len(v) + (k + 1) \in 1..Len(v) + Len(w) /\ ~(Len(v) + (k + 1) <= Len(v))
      BY <1>0
    <3>2. Len(v) + (k + 1) - Len(v) = k + 1
      BY <1>0
    <3> QED
      BY <1>0, <3>1, <3>2
  <2>3. Stages(t, vw)[Len(v) + (k + 1)] = Obey(Stages(t, vw)[Len(v) + k], w[k + 1])
    BY <1>1, <2>2
  <2>4. Stages(u, w)[k + 1] = Obey(Stages(u, w)[k], w[k + 1])
    BY <1>5, <2>1
  <2> QED
    BY <1>7, <2>1, <2>3, <2>4
<1>8. Stages(t, vw)[Len(v) + Len(w)] = Stages(u, w)[Len(w)]
  <2>1. 0..Len(w) \subseteq T
    <3> HIDE DEF T
    <3> QED
      BY <1>0, <1>6, <1>7, EveryNumber
  <2> QED
    BY <2>1, <1>0
<1> QED
  BY <1>8, <1>0 DEF Settle, u, vw

\* A terminal that sees the first sequence has the rest still to see.
LEMMA SettleHead ==
  ASSUME NEW t, NEW w \in Seq(Command), w # <<>>
  PROVE  /\ Head(w) \in Command /\ Tail(w) \in Seq(Command)
         /\ Settle(Obey(t, Head(w)), Tail(w)) = Settle(t, w)
<1>1. Head(w) \in Command /\ Tail(w) \in Seq(Command) /\ w = <<Head(w)>> \o Tail(w)
  BY HeadTailProperties
<1>2. <<Head(w)>> \in Seq(Command)
  BY <1>1
<1>3. Settle(t, <<Head(w)>> \o Tail(w)) = Settle(Settle(t, <<Head(w)>>), Tail(w))
  BY <1>1, <1>2, SettleConcat
<1> QED
  BY <1>1, <1>3, SettleOne
-----------------------------------------------------------------------------
In(x, v)  == \E i \in 1..Len(v) : v[i] = x
Sets(v)   == {m \in Modes : In(Set(m), v)}
Resets(v) == {m \in Modes : In(Reset(m), v)}

\* Sequences that reset nothing add the modes they set.
LEMMA SettleSets ==
  ASSUME NEW t \in Terminal, NEW w \in Seq(Command), Resets(w) = {}
  PROVE  Settle(t, w).modes = t.modes \union Sets(w)
<1>0. /\ Len(w) \in Nat /\ \A i \in 1..Len(w) : w[i] \in Command
      /\ \A n \in 0..Len(w) : Stages(t, w)[n] \in Terminal
      /\ Stages(t, w)[0] = t
      /\ \A n \in 1..Len(w) : Stages(t, w)[n] = Obey(Stages(t, w)[n - 1], w[n])
  BY CommandsTyped, StagesTyped, StagesDef
<1> DEFINE upTo(n) == {m \in Modes : \E i \in 1..n : w[i] = Set(m)}
           S == {n \in 0..Len(w) : Stages(t, w)[n].modes = t.modes \union upTo(n)}
<1>1. 0 \in S
  <2>1. upTo(0) = {}
    OBVIOUS
  <2> QED
    BY <1>0, <2>1
<1>2. ASSUME NEW k \in 0..(Len(w) - 1), k \in S PROVE k + 1 \in S
  <2> DEFINE u == Stages(t, w)[k]
             s == w[k + 1]
  <2>1. k + 1 \in 1..Len(w) /\ k + 1 - 1 = k /\ k \in 0..Len(w) /\ k + 1 \in 0..Len(w)
    BY <1>0
  <2>2. u \in Terminal /\ s \in Command /\ Stages(t, w)[k + 1] = Obey(u, s)
    BY <1>0, <2>1
  <2>3. u.modes = t.modes \union upTo(k)
    BY <1>2
  <2>4. upTo(k + 1) = upTo(k) \union {m \in Modes : s = Set(m)}
    <3>1. 1..(k + 1) = (1..k) \union {k + 1}
      BY <2>1
    <3> QED
      BY <3>1
  <2>5. \A m \in Modes : s # Reset(m)
    BY <2>1 DEF Resets, In
  <2>6. Obey(u, s).modes = u.modes \union {m \in Modes : s = Set(m)}
    <3> HIDE DEF u, s
    <3>1. CASE \E m \in Modes : s = Set(m)
      <4>1. PICK m \in Modes : s = Set(m)
        BY <3>1
      <4>2. {l \in Modes : s = Set(l)} = {m}
        BY <4>1, CommandsDiffer
      <4>3. Obey(u, s).modes = u.modes \union {m}
        BY <4>1, <2>2, ObeySet
      <4> QED
        BY <4>2, <4>3
    <3>2. CASE ~ \E m \in Modes : s = Set(m)
      <4>1. s \in {<<"push", "15">>, <<"pop", "1">>, <<"report", "5">>}
        BY <3>2, <2>2, <2>5, CommandKinds
      <4>2. Obey(u, s).modes = u.modes
        BY <4>1, <2>2, ObeySays
      <4> QED
        BY <3>2, <4>2
    <3> QED
      BY <3>1, <3>2
  <2>7. Stages(t, w)[k + 1].modes = t.modes \union upTo(k + 1)
    <3> HIDE DEF u, s, upTo
    <3> QED
      BY <2>2, <2>3, <2>4, <2>6
  <2> QED
    BY <2>1, <2>7
<1>3. 0..Len(w) \subseteq S
  <2> HIDE DEF S
  <2> QED
    BY <1>0, <1>1, <1>2, EveryNumber
<1>4. Stages(t, w)[Len(w)].modes = t.modes \union upTo(Len(w))
  BY <1>0, <1>3
<1> QED
  BY <1>4 DEF Settle, Sets, In

\* Sequences that set nothing take away the modes they reset.
LEMMA SettleResets ==
  ASSUME NEW t \in Terminal, NEW w \in Seq(Command), Sets(w) = {}
  PROVE  Settle(t, w).modes = t.modes \ Resets(w)
<1>0. /\ Len(w) \in Nat /\ \A i \in 1..Len(w) : w[i] \in Command
      /\ \A n \in 0..Len(w) : Stages(t, w)[n] \in Terminal
      /\ Stages(t, w)[0] = t
      /\ \A n \in 1..Len(w) : Stages(t, w)[n] = Obey(Stages(t, w)[n - 1], w[n])
  BY CommandsTyped, StagesTyped, StagesDef
<1> DEFINE upTo(n) == {m \in Modes : \E i \in 1..n : w[i] = Reset(m)}
           S == {n \in 0..Len(w) : Stages(t, w)[n].modes = t.modes \ upTo(n)}
<1>1. 0 \in S
  <2>1. upTo(0) = {}
    OBVIOUS
  <2> QED
    BY <1>0, <2>1
<1>2. ASSUME NEW k \in 0..(Len(w) - 1), k \in S PROVE k + 1 \in S
  <2> DEFINE u == Stages(t, w)[k]
             s == w[k + 1]
  <2>1. k + 1 \in 1..Len(w) /\ k + 1 - 1 = k /\ k \in 0..Len(w) /\ k + 1 \in 0..Len(w)
    BY <1>0
  <2>2. u \in Terminal /\ s \in Command /\ Stages(t, w)[k + 1] = Obey(u, s)
    BY <1>0, <2>1
  <2>3. u.modes = t.modes \ upTo(k)
    BY <1>2
  <2>4. upTo(k + 1) = upTo(k) \union {m \in Modes : s = Reset(m)}
    <3>1. 1..(k + 1) = (1..k) \union {k + 1}
      BY <2>1
    <3> QED
      BY <3>1
  <2>5. \A m \in Modes : s # Set(m)
    BY <2>1 DEF Sets, In
  <2>6. Obey(u, s).modes = u.modes \ {m \in Modes : s = Reset(m)}
    <3> HIDE DEF u, s
    <3>1. CASE \E m \in Modes : s = Reset(m)
      <4>1. PICK m \in Modes : s = Reset(m)
        BY <3>1
      <4>2. {l \in Modes : s = Reset(l)} = {m}
        BY <4>1, CommandsDiffer
      <4>3. Obey(u, s).modes = u.modes \ {m}
        BY <4>1, <2>2, ObeyReset
      <4> QED
        BY <4>2, <4>3
    <3>2. CASE ~ \E m \in Modes : s = Reset(m)
      <4>1. s \in {<<"push", "15">>, <<"pop", "1">>, <<"report", "5">>}
        BY <3>2, <2>2, <2>5, CommandKinds
      <4>2. Obey(u, s).modes = u.modes
        BY <4>1, <2>2, ObeySays
      <4> QED
        BY <3>2, <4>2
    <3> QED
      BY <3>1, <3>2
  <2>7. Stages(t, w)[k + 1].modes = t.modes \ upTo(k + 1)
    <3> HIDE DEF u, s, upTo
    <3> QED
      BY <2>2, <2>3, <2>4, <2>6
  <2> QED
    BY <2>1, <2>7
<1>3. 0..Len(w) \subseteq S
  <2> HIDE DEF S
  <2> QED
    BY <1>0, <1>1, <1>2, EveryNumber
<1>4. Stages(t, w)[Len(w)].modes = t.modes \ upTo(Len(w))
  BY <1>0, <1>3
<1> QED
  BY <1>4 DEF Settle, Resets, In

\* Sequences that neither push nor pop leave the stack of flags alone.
LEMMA SettleKitty ==
  ASSUME NEW t \in Terminal, NEW w \in Seq(Command),
         ~In(<<"push", "15">>, w), ~In(<<"pop", "1">>, w)
  PROVE  Settle(t, w).kitty = t.kitty
<1>0. /\ Len(w) \in Nat /\ \A i \in 1..Len(w) : w[i] \in Command
      /\ \A n \in 0..Len(w) : Stages(t, w)[n] \in Terminal
      /\ Stages(t, w)[0] = t
      /\ \A n \in 1..Len(w) : Stages(t, w)[n] = Obey(Stages(t, w)[n - 1], w[n])
  BY CommandsTyped, StagesTyped, StagesDef
<1> DEFINE S == {n \in 0..Len(w) : Stages(t, w)[n].kitty = t.kitty}
<1>1. 0 \in S
  BY <1>0
<1>2. ASSUME NEW k \in 0..(Len(w) - 1), k \in S PROVE k + 1 \in S
  <2> DEFINE u == Stages(t, w)[k]
             s == w[k + 1]
  <2>1. k + 1 \in 1..Len(w) /\ k + 1 - 1 = k /\ k \in 0..Len(w) /\ k + 1 \in 0..Len(w)
    BY <1>0
  <2>2. u \in Terminal /\ s \in Command /\ Stages(t, w)[k + 1] = Obey(u, s)
    BY <1>0, <2>1
  <2>3. s # <<"push", "15">> /\ s # <<"pop", "1">>
    BY <2>1 DEF In
  <2>4. Obey(u, s).kitty = u.kitty
    <3> HIDE DEF u, s
    <3>1. (\E m \in Modes : s = Set(m) \/ s = Reset(m)) \/ s = <<"report", "5">>
      BY <2>2, <2>3, CommandKinds
    <3> QED
      BY <2>2, <3>1, ObeySays
  <2> QED
    BY <1>2, <2>1, <2>2, <2>4
<1>3. 0..Len(w) \subseteq S
  <2> HIDE DEF S
  <2> QED
    BY <1>0, <1>1, <1>2, EveryNumber
<1> QED
  BY <1>0, <1>3 DEF Settle
-----------------------------------------------------------------------------
LEMMA InConcat ==
  ASSUME NEW v \in Seq(Command), NEW w \in Seq(Command), NEW x
  PROVE  v \o w \in Seq(Command) /\ (In(x, v \o w) <=> In(x, v) \/ In(x, w))
<1> DEFINE vw == v \o w
<1>0. /\ Len(v) \in Nat /\ Len(w) \in Nat /\ vw \in Seq(Command)
      /\ Len(vw) = Len(v) + Len(w)
      /\ \A i \in 1..Len(v) + Len(w) : vw[i] = IF i <= Len(v) THEN v[i] ELSE w[i - Len(v)]
  BY ConcatProperties, LenProperties
<1> HIDE DEF vw
<1>1. ASSUME NEW i \in 1..Len(vw), vw[i] = x PROVE In(x, v) \/ In(x, w)
  <2>1. CASE i <= Len(v)
    BY <1>0, <1>1, <2>1 DEF In
  <2>2. CASE ~(i <= Len(v))
    <3>1. i - Len(v) \in 1..Len(w) /\ w[i - Len(v)] = x
      BY <1>0, <1>1, <2>2
    <3> QED
      BY <3>1 DEF In
  <2> QED
    BY <2>1, <2>2
<1>2. ASSUME NEW i \in 1..Len(v), v[i] = x PROVE In(x, vw)
  <2>1. i \in 1..Len(vw) /\ vw[i] = x
    BY <1>0, <1>2
  <2> QED
    BY <2>1 DEF In
<1>3. ASSUME NEW i \in 1..Len(w), w[i] = x PROVE In(x, vw)
  <2>1. Len(v) + i \in 1..Len(vw) /\ ~(Len(v) + i <= Len(v)) /\ Len(v) + i - Len(v) = i
    BY <1>0
  <2>2. vw[Len(v) + i] = x
    BY <1>0, <1>3, <2>1
  <2> QED
    BY <2>1, <2>2 DEF In
<1>4. In(x, vw) <=> In(x, v) \/ In(x, w)
  BY <1>1, <1>2, <1>3 DEF In
<1> QED
  BY <1>0, <1>4 DEF vw

\* What each of the strings of terminal.go holds.
LEMMA Strings ==
  /\ \A s \in {seqEnableKitty, seqDisableKitty, seqEnableWin32, seqDisableWin32, seqEnableMouse,
               seqDisableMouse, seqEnableExt, seqDisableExt, seqEnableFar2l, seqDisableFar2l} :
       s \in Seq(Command)
  /\ \A x : In(x, seqEnableKitty) <=> x = <<"push", "15">>
  /\ \A x : In(x, seqDisableKitty) <=> x = <<"pop", "1">>
  /\ \A x : In(x, seqEnableWin32) <=> x = Set("9001")
  /\ \A x : In(x, seqDisableWin32) <=> x = Reset("9001")
  /\ \A x : In(x, seqEnableMouse) <=> x \in {Set("1002"), Set("1003"), Set("1015"), Set("1006")}
  /\ \A x : In(x, seqDisableMouse) <=>
              x \in {Reset("1002"), Reset("1003"), Reset("1015"), Reset("1006")}
  /\ \A x : In(x, seqEnableExt) <=> x \in {Set("1004"), Set("2004")}
  /\ \A x : In(x, seqDisableExt) <=> x \in {Reset("1004"), Reset("2004")}
  /\ \A x : In(x, seqEnableFar2l) <=> x \in {Set("far2l"), <<"report", "5">>}
  /\ \A x : In(x, seqDisableFar2l) <=> x = Reset("far2l")
<1>0. /\ \A m \in Modes : Set(m) \in Command /\ Reset(m) \in Command
      /\ <<"push", "15">> \in Command /\ <<"pop", "1">> \in Command /\ <<"report", "5">> \in Command
  BY DEF Set, Reset, Command
<1>1. {"9001", "1002", "1003", "1015", "1006", "1004", "2004", "far2l"} \subseteq Modes
  BY DEF Modes
<1> HIDE DEF Command, Modes, Set, Reset
<1>2. ASSUME NEW a PROVE Len(<<a>>) = 1 /\ \A x : In(x, <<a>>) <=> x = a
  BY DEF In
<1>3. ASSUME NEW a, NEW b
      PROVE Len(<<a, b>>) = 2 /\ \A x : In(x, <<a, b>>) <=> x \in {a, b}
  <2>1. Len(<<a, b>>) = 2 /\ <<a, b>>[1] = a /\ <<a, b>>[2] = b
    OBVIOUS
  <2>2. 1..2 = {1, 2}
    OBVIOUS
  <2> QED
    BY <2>1, <2>2 DEF In
<1>4. ASSUME NEW a, NEW b, NEW c, NEW d
      PROVE Len(<<a, b, c, d>>) = 4 /\ \A x : In(x, <<a, b, c, d>>) <=> x \in {a, b, c, d}
  <2>1. /\ Len(<<a, b, c, d>>) = 4 /\ <<a, b, c, d>>[1] = a /\ <<a, b, c, d>>[2] = b
        /\ <<a, b, c, d>>[3] = c /\ <<a, b, c, d>>[4] = d
    OBVIOUS
  <2>2. 1..4 = {1, 2, 3, 4}
    OBVIOUS
  <2> QED
    BY <2>1, <2>2 DEF In
<1>5. \A s \in {seqEnableKitty, seqDisableKitty, seqEnableWin32, seqDisableWin32, seqEnableMouse,
               seqDisableMouse, seqEnableExt, seqDisableExt, seqEnableFar2l, seqDisableFar2l} :
        s \in Seq(Command)
  <2>1. \A a \in Command : <<a>> \in Seq(Command)
    OBVIOUS
  <2>2. \A a, b \in Command : <<a, b>> \in Seq(Command)
    OBVIOUS
  <2>3. \A a, b, c, d \in Command : <<a, b, c, d>> \in Seq(Command)
    OBVIOUS
  <2>4. \A s \in {seqEnableKitty, seqDisableKitty, seqEnableWin32, seqDisableWin32,
                 seqDisableFar2l} : s \in Seq(Command)
    BY <1>0, <1>1, <2>1
       DEF seqEnableKitty, seqDisableKitty, seqEnableWin32, seqDisableWin32, seqDisableFar2l
  <2>5. seqEnableExt \in Seq(Command) /\ seqDisableExt \in Seq(Command)
        /\ seqEnableFar2l \in Seq(Command)
    BY <1>0, <1>1, <2>2 DEF seqEnableExt, seqDisableExt, seqEnableFar2l
  <2>6. seqEnableMouse \in Seq(Command) /\ seqDisableMouse \in Seq(Command)
    BY <1>0, <1>1, <2>3 DEF seqEnableMouse, seqDisableMouse
  <2> QED
    BY <2>4, <2>5, <2>6
<1>6. /\ \A x : In(x, seqEnableKitty) <=> x = <<"push", "15">>
      /\ \A x : In(x, seqDisableKitty) <=> x = <<"pop", "1">>
      /\ \A x : In(x, seqEnableWin32) <=> x = Set("9001")
      /\ \A x : In(x, seqDisableWin32) <=> x = Reset("9001")
      /\ \A x : In(x, seqDisableFar2l) <=> x = Reset("far2l")
  BY <1>2 DEF seqEnableKitty, seqDisableKitty, seqEnableWin32, seqDisableWin32, seqDisableFar2l
<1>7. /\ \A x : In(x, seqEnableExt) <=> x \in {Set("1004"), Set("2004")}
      /\ \A x : In(x, seqDisableExt) <=> x \in {Reset("1004"), Reset("2004")}
      /\ \A x : In(x, seqEnableFar2l) <=> x \in {Set("far2l"), <<"report", "5">>}
  BY <1>3 DEF seqEnableExt, seqDisableExt, seqEnableFar2l
<1>8. /\ \A x : In(x, seqEnableMouse) <=> x \in {Set("1002"), Set("1003"), Set("1015"), Set("1006")}
      /\ \A x : In(x, seqDisableMouse) <=>
              x \in {Reset("1002"), Reset("1003"), Reset("1015"), Reset("1006")}
  BY <1>4 DEF seqEnableMouse, seqDisableMouse
<1> QED
  BY <1>5, <1>6, <1>7, <1>8

LEMMA InPart ==
  ASSUME NEW mask, NEW p, NEW s \in Seq(Command)
  PROVE  /\ Part(mask, p, s) \in Seq(Command)
         /\ \A x : In(x, Part(mask, p, s)) <=> p \in mask /\ In(x, s)
<1>1. <<>> \in Seq(Command) /\ Len(<<>>) = 0
  BY EmptySeq
<1>2. \A x : ~In(x, <<>>)
  BY <1>1 DEF In
<1> QED
  BY <1>1, <1>2 DEF Part

\* What is in five sequences, one after the other.
LEMMA InFive ==
  ASSUME NEW a \in Seq(Command), NEW b \in Seq(Command), NEW c \in Seq(Command),
         NEW d \in Seq(Command), NEW e \in Seq(Command)
  PROVE  /\ a \o b \o c \o d \in Seq(Command)
         /\ a \o b \o c \o d \o e \in Seq(Command)
         /\ \A x : In(x, a \o b \o c \o d) <=> In(x, a) \/ In(x, b) \/ In(x, c) \/ In(x, d)
         /\ \A x : In(x, a \o b \o c \o d \o e) <=>
                     In(x, a) \/ In(x, b) \/ In(x, c) \/ In(x, d) \/ In(x, e)
<1>1. a \o b \in Seq(Command) /\ \A x : In(x, a \o b) <=> In(x, a) \/ In(x, b)
  BY InConcat
<1> DEFINE ab == a \o b
<1> HIDE DEF ab
<1>2. ab \in Seq(Command) /\ \A x : In(x, ab) <=> In(x, a) \/ In(x, b)
  BY <1>1 DEF ab
<1>3. ab \o c \in Seq(Command) /\ \A x : In(x, ab \o c) <=> In(x, ab) \/ In(x, c)
  BY <1>2, InConcat
<1> DEFINE abc == ab \o c
<1> HIDE DEF abc
<1>4. abc \in Seq(Command) /\ \A x : In(x, abc) <=> In(x, ab) \/ In(x, c)
  BY <1>3 DEF abc
<1>5. abc \o d \in Seq(Command) /\ \A x : In(x, abc \o d) <=> In(x, abc) \/ In(x, d)
  BY <1>4, InConcat
<1> DEFINE abcd == abc \o d
<1> HIDE DEF abcd
<1>6. abcd \in Seq(Command) /\ \A x : In(x, abcd) <=> In(x, abc) \/ In(x, d)
  BY <1>5 DEF abcd
<1>7. abcd \o e \in Seq(Command) /\ \A x : In(x, abcd \o e) <=> In(x, abcd) \/ In(x, e)
  BY <1>6, InConcat
<1>8. abcd = a \o b \o c \o d /\ abcd \o e = a \o b \o c \o d \o e
  BY DEF ab, abc, abcd
<1> QED
  BY <1>2, <1>4, <1>6, <1>7, <1>8

\* What EnableProtocols writes sets modes, and what the restore function
\* writes resets the same ones; the flags of kitty are pushed first and
\* popped last.
LEMMA WhatIsWritten ==
  ASSUME NEW mask
  PROVE  /\ enableSeq(mask) \in Seq(Command) /\ disableSeq(mask) \in Seq(Command)
         /\ Resets(enableSeq(mask)) = {} /\ Sets(enableSeq(mask)) = ModesOf(mask)
         /\ Sets(disableSeq(mask)) = {} /\ Resets(disableSeq(mask)) = ModesOf(mask)
<1> DEFINE K == Part(mask, "kitty", seqEnableKitty)
           W == Part(mask, "win32", seqEnableWin32)
           M == Part(mask, "mouse", seqEnableMouse)
           E == Part(mask, "ext", seqEnableExt)
           F == Part(mask, "far2l", seqEnableFar2l)
           Ko == Part(mask, "kitty", seqDisableKitty)
           Wo == Part(mask, "win32", seqDisableWin32)
           Mo == Part(mask, "mouse", seqDisableMouse)
           Eo == Part(mask, "ext", seqDisableExt)
           Fo == Part(mask, "far2l", seqDisableFar2l)
<1>1. /\ K \in Seq(Command) /\ \A x : In(x, K) <=> "kitty" \in mask /\ In(x, seqEnableKitty)
      /\ W \in Seq(Command) /\ \A x : In(x, W) <=> "win32" \in mask /\ In(x, seqEnableWin32)
      /\ M \in Seq(Command) /\ \A x : In(x, M) <=> "mouse" \in mask /\ In(x, seqEnableMouse)
      /\ E \in Seq(Command) /\ \A x : In(x, E) <=> "ext" \in mask /\ In(x, seqEnableExt)
      /\ F \in Seq(Command) /\ \A x : In(x, F) <=> "far2l" \in mask /\ In(x, seqEnableFar2l)
  BY InPart, Strings
<1>2. /\ Ko \in Seq(Command) /\ \A x : In(x, Ko) <=> "kitty" \in mask /\ In(x, seqDisableKitty)
      /\ Wo \in Seq(Command) /\ \A x : In(x, Wo) <=> "win32" \in mask /\ In(x, seqDisableWin32)
      /\ Mo \in Seq(Command) /\ \A x : In(x, Mo) <=> "mouse" \in mask /\ In(x, seqDisableMouse)
      /\ Eo \in Seq(Command) /\ \A x : In(x, Eo) <=> "ext" \in mask /\ In(x, seqDisableExt)
      /\ Fo \in Seq(Command) /\ \A x : In(x, Fo) <=> "far2l" \in mask /\ In(x, seqDisableFar2l)
  BY InPart, Strings
<1>3. enableSeq(mask) = K \o W \o M \o E \o F /\ disableSeq(mask) = Fo \o Eo \o Mo \o Wo \o Ko
  BY DEF enableSeq, disableSeq
<1> HIDE DEF K, W, M, E, F, Ko, Wo, Mo, Eo, Fo
<1>4. /\ enableSeq(mask) \in Seq(Command)
      /\ \A x : In(x, enableSeq(mask)) <=> In(x, K) \/ In(x, W) \/ In(x, M) \/ In(x, E) \/ In(x, F)
  BY <1>1, <1>3, InFive
<1>5. /\ disableSeq(mask) \in Seq(Command)
      /\ \A x : In(x, disableSeq(mask)) <=>
                  In(x, Fo) \/ In(x, Eo) \/ In(x, Mo) \/ In(x, Wo) \/ In(x, Ko)
  BY <1>2, <1>3, InFive
<1>a. \A x : In(x, enableSeq(mask)) <=>
        \/ "kitty" \in mask /\ x = <<"push", "15">>
        \/ "win32" \in mask /\ x = Set("9001")
        \/ "mouse" \in mask /\ x \in {Set("1002"), Set("1003"), Set("1015"), Set("1006")}
        \/ "ext" \in mask /\ x \in {Set("1004"), Set("2004")}
        \/ "far2l" \in mask /\ x \in {Set("far2l"), <<"report", "5">>}
  <2> TAKE x
  <2>1. /\ In(x, seqEnableKitty) <=> x = <<"push", "15">>
        /\ In(x, seqEnableWin32) <=> x = Set("9001")
        /\ In(x, seqEnableMouse) <=> x \in {Set("1002"), Set("1003"), Set("1015"), Set("1006")}
        /\ In(x, seqEnableExt) <=> x \in {Set("1004"), Set("2004")}
        /\ In(x, seqEnableFar2l) <=> x \in {Set("far2l"), <<"report", "5">>}
    BY Strings, Zenon
  <2>2. In(x, enableSeq(mask)) <=> In(x, K) \/ In(x, W) \/ In(x, M) \/ In(x, E) \/ In(x, F)
    BY <1>4
  <2>3. /\ In(x, K) <=> "kitty" \in mask /\ In(x, seqEnableKitty)
        /\ In(x, W) <=> "win32" \in mask /\ In(x, seqEnableWin32)
        /\ In(x, M) <=> "mouse" \in mask /\ In(x, seqEnableMouse)
        /\ In(x, E) <=> "ext" \in mask /\ In(x, seqEnableExt)
        /\ In(x, F) <=> "far2l" \in mask /\ In(x, seqEnableFar2l)
    BY <1>1
  <2> QED
    BY <2>1, <2>2, <2>3, Zenon
<1>b. \A x : In(x, disableSeq(mask)) <=>
        \/ "kitty" \in mask /\ x = <<"pop", "1">>
        \/ "win32" \in mask /\ x = Reset("9001")
        \/ "mouse" \in mask /\ x \in {Reset("1002"), Reset("1003"), Reset("1015"), Reset("1006")}
        \/ "ext" \in mask /\ x \in {Reset("1004"), Reset("2004")}
        \/ "far2l" \in mask /\ x = Reset("far2l")
  BY <1>2, <1>5, Strings
<1>6. ASSUME NEW m \in Modes
      PROVE  /\ ~In(Reset(m), enableSeq(mask)) /\ ~In(Set(m), disableSeq(mask))
             /\ In(Set(m), enableSeq(mask)) <=> In(Reset(m), disableSeq(mask))
  <2>0. \A l \in {"9001", "1002", "1003", "1015", "1006", "1004", "2004", "far2l"} :
          /\ Set(m) # Reset(l) /\ Reset(m) # Set(l)
          /\ (Set(m) = Set(l)) <=> (m = l)
          /\ (Reset(m) = Reset(l)) <=> (m = l)
    <3>1. {"9001", "1002", "1003", "1015", "1006", "1004", "2004", "far2l"} = Modes
      BY DEF Modes
    <3> QED
      BY <3>1, CommandsDiffer
  <2>k. /\ Set(m) # <<"push", "15">> /\ Set(m) # <<"pop", "1">> /\ Set(m) # <<"report", "5">>
        /\ Reset(m) # <<"push", "15">> /\ Reset(m) # <<"pop", "1">> /\ Reset(m) # <<"report", "5">>
    BY CommandsDiffer
  <2>1. ~In(Reset(m), enableSeq(mask))
    BY <1>a, <2>0, <2>k
  <2>2. ~In(Set(m), disableSeq(mask))
    BY <1>b, <2>0, <2>k
  <2>3. In(Set(m), enableSeq(mask)) <=>
          \/ "win32" \in mask /\ m = "9001"
          \/ "mouse" \in mask /\ m \in {"1002", "1003", "1015", "1006"}
          \/ "ext" \in mask /\ m \in {"1004", "2004"}
          \/ "far2l" \in mask /\ m = "far2l"
    BY <1>a, <2>0, <2>k
  <2>4. In(Reset(m), disableSeq(mask)) <=>
          \/ "win32" \in mask /\ m = "9001"
          \/ "mouse" \in mask /\ m \in {"1002", "1003", "1015", "1006"}
          \/ "ext" \in mask /\ m \in {"1004", "2004"}
          \/ "far2l" \in mask /\ m = "far2l"
    BY <1>b, <2>0, <2>k
  <2> QED
    BY <2>1, <2>2, <2>3, <2>4
<1>7. ModesOf(mask) = Sets(enableSeq(mask))
  BY DEF ModesOf, Sets, In
<1> QED
  BY <1>4, <1>5, <1>6, <1>7 DEF Sets, Resets
\* Nothing but the kitty parts touches the stack of flags.
LEMMA OtherParts ==
  ASSUME NEW t \in Terminal, NEW v \in Seq(Command), NEW mask, NEW p,
         NEW s \in {seqEnableWin32, seqEnableMouse, seqEnableExt, seqEnableFar2l}
  PROVE  /\ v \o Part(mask, p, s) \in Seq(Command)
         /\ Settle(t, v \o Part(mask, p, s)).kitty = Settle(t, v).kitty
<1>1. s \in Seq(Command)
  BY Strings
<1> DEFINE w == Part(mask, p, s)
<1>2. w \in Seq(Command) /\ \A x : In(x, w) => In(x, s)
  BY <1>1, InPart
<1>3. ~In(<<"push", "15">>, s) /\ ~In(<<"pop", "1">>, s)
  <2>1. /\ \A m \in Modes : <<"push", "15">> # Set(m) /\ <<"pop", "1">> # Set(m)
        /\ <<"push", "15">> # <<"report", "5">> /\ <<"pop", "1">> # <<"report", "5">>
    BY CommandsDiffer
  <2>2. {"9001", "1002", "1003", "1015", "1006", "1004", "2004", "far2l"} = Modes
    BY DEF Modes
  <2>3. \A x : In(x, s) =>
          x \in {Set("9001"), Set("1002"), Set("1003"), Set("1015"), Set("1006"), Set("1004"),
                 Set("2004"), Set("far2l"), <<"report", "5">>}
    <3>1. CASE s = seqEnableWin32
      BY <3>1, Strings, Zenon
    <3>2. CASE s = seqEnableMouse
      BY <3>2, Strings, Zenon
    <3>3. CASE s = seqEnableExt
      BY <3>3, Strings, Zenon
    <3>4. CASE s = seqEnableFar2l
      BY <3>4, Strings, Zenon
    <3> QED
      BY <3>1, <3>2, <3>3, <3>4
  <2> QED
    BY <2>1, <2>2, <2>3
<1> HIDE DEF w
<1>4. v \o w \in Seq(Command) /\ Settle(t, v \o w) = Settle(Settle(t, v), w)
  BY <1>2, SettleConcat, ConcatProperties
<1>5. Settle(Settle(t, v), w).kitty = Settle(t, v).kitty
  BY <1>2, <1>3, SettleTyped, SettleKitty
<1> QED
  BY <1>4, <1>5 DEF w

\* What a terminal makes of what EnableProtocols writes ...
LEMMA Enabled ==
  ASSUME NEW t \in Terminal, NEW mask
  PROVE  /\ Settle(t, enableSeq(mask)) \in Terminal
         /\ Settle(t, enableSeq(mask)).modes = t.modes \union ModesOf(mask)
         /\ Settle(t, enableSeq(mask)).kitty =
              IF "kitty" \in mask THEN Append(t.kitty, "15") ELSE t.kitty
<1>1. /\ Settle(t, enableSeq(mask)) \in Terminal
      /\ Settle(t, enableSeq(mask)).modes = t.modes \union ModesOf(mask)
  BY WhatIsWritten, SettleSets, SettleTyped
<1> DEFINE K == Part(mask, "kitty", seqEnableKitty)
           W == Part(mask, "win32", seqEnableWin32)
           M == Part(mask, "mouse", seqEnableMouse)
           E == Part(mask, "ext", seqEnableExt)
           F == Part(mask, "far2l", seqEnableFar2l)
           KW == K \o W
           KWM == KW \o M
           KWME == KWM \o E
<1>2. K \in Seq(Command)
  BY Strings, InPart
<1>3. KW \in Seq(Command) /\ Settle(t, KW).kitty = Settle(t, K).kitty
  <2> HIDE DEF K
  <2> QED
    BY <1>2, OtherParts
<1>4. KWM \in Seq(Command) /\ Settle(t, KWM).kitty = Settle(t, KW).kitty
  <2> HIDE DEF KW
  <2> QED
    BY <1>3, OtherParts
<1>5. KWME \in Seq(Command) /\ Settle(t, KWME).kitty = Settle(t, KWM).kitty
  <2> HIDE DEF KWM
  <2> QED
    BY <1>4, OtherParts
<1>6. Settle(t, KWME \o F).kitty = Settle(t, KWME).kitty
  <2> HIDE DEF KWME
  <2> QED
    BY <1>5, OtherParts
<1>7. enableSeq(mask) = KWME \o F
  BY DEF enableSeq
<1>8. Settle(t, K).kitty = IF "kitty" \in mask THEN Append(t.kitty, "15") ELSE t.kitty
  <2>1. CASE "kitty" \in mask
    <3>1. K = << <<"push", "15">> >>
      BY <2>1 DEF Part, seqEnableKitty
    <3>2. Settle(t, K) = Obey(t, <<"push", "15">>)
      BY <3>1, SettleOne
    <3>3. <<"push", "15">> \in Command
      BY DEF Command
    <3> HIDE DEF K
    <3>4. Obey(t, <<"push", "15">>).kitty = Append(t.kitty, "15")
      BY <3>3, ObeySays
    <3> QED
      BY <2>1, <3>2, <3>4
  <2>2. CASE "kitty" \notin mask
    <3>1. K = <<>>
      BY <2>2 DEF Part
    <3> QED
      BY <2>2, <3>1, SettleNothing
  <2> QED
    BY <2>1, <2>2
<1> HIDE DEF K, W, M, E, F, KW, KWM, KWME
<1> QED
  BY <1>1, <1>3, <1>4, <1>5, <1>6, <1>7, <1>8

\* ... and of what the restore function writes.
LEMMA Disabled ==
  ASSUME NEW t \in Terminal, NEW mask
  PROVE  /\ Settle(t, disableSeq(mask)) \in Terminal
         /\ Settle(t, disableSeq(mask)).modes = t.modes \ ModesOf(mask)
         /\ Settle(t, disableSeq(mask)).kitty =
              IF "kitty" \in mask /\ t.kitty # <<>> THEN Front(t.kitty) ELSE t.kitty
<1>1. /\ Settle(t, disableSeq(mask)) \in Terminal
      /\ Settle(t, disableSeq(mask)).modes = t.modes \ ModesOf(mask)
  BY WhatIsWritten, SettleResets, SettleTyped
<1> DEFINE Ko == Part(mask, "kitty", seqDisableKitty)
           Wo == Part(mask, "win32", seqDisableWin32)
           Mo == Part(mask, "mouse", seqDisableMouse)
           Eo == Part(mask, "ext", seqDisableExt)
           Fo == Part(mask, "far2l", seqDisableFar2l)
           rest == Fo \o Eo \o Mo \o Wo
<1>2. /\ Ko \in Seq(Command)
      /\ Wo \in Seq(Command) /\ \A x : In(x, Wo) => x = Reset("9001")
      /\ Mo \in Seq(Command)
      /\ \A x : In(x, Mo) => x \in {Reset("1002"), Reset("1003"), Reset("1015"), Reset("1006")}
      /\ Eo \in Seq(Command) /\ \A x : In(x, Eo) => x \in {Reset("1004"), Reset("2004")}
      /\ Fo \in Seq(Command) /\ \A x : In(x, Fo) => x = Reset("far2l")
  BY InPart, Strings
<1>3. disableSeq(mask) = rest \o Ko
  BY DEF disableSeq
<1>4. /\ rest \in Seq(Command)
      /\ \A x : In(x, rest) <=> In(x, Fo) \/ In(x, Eo) \/ In(x, Mo) \/ In(x, Wo)
  <2> HIDE DEF Ko, Wo, Mo, Eo, Fo
  <2> QED
    BY <1>2, InFive
<1> HIDE DEF Wo, Mo, Eo, Fo, rest
<1>5. ~In(<<"push", "15">>, rest) /\ ~In(<<"pop", "1">>, rest)
  <2>1. \A m \in Modes : <<"push", "15">> # Reset(m) /\ <<"pop", "1">> # Reset(m)
    BY CommandsDiffer
  <2>2. {"9001", "1002", "1003", "1015", "1006", "1004", "2004", "far2l"} = Modes
    BY DEF Modes
  <2> QED
    BY <1>2, <1>4, <2>1, <2>2
<1>6. Settle(t, rest).kitty = t.kitty /\ Settle(t, rest) \in Terminal
  BY <1>4, <1>5, SettleKitty, SettleTyped
<1>7. Settle(t, rest \o Ko) = Settle(Settle(t, rest), Ko)
  <2> HIDE DEF Ko
  <2> QED
    BY <1>2, <1>4, SettleConcat
<1>8. Settle(Settle(t, rest), Ko).kitty =
        IF "kitty" \in mask /\ t.kitty # <<>> THEN Front(t.kitty) ELSE t.kitty
  <2> DEFINE u == Settle(t, rest)
  <2> HIDE DEF u
  <2>u. u \in Terminal /\ u.kitty = t.kitty
    BY <1>6 DEF u
  <2>1. CASE "kitty" \in mask
    <3>1. Ko = << <<"pop", "1">> >>
      BY <2>1 DEF Part, seqDisableKitty
    <3>2. Settle(u, Ko) = Obey(u, <<"pop", "1">>)
      BY <3>1, SettleOne
    <3>3. <<"pop", "1">> \in Command
      BY DEF Command
    <3> HIDE DEF Ko
    <3>4. Obey(u, <<"pop", "1">>).kitty = IF u.kitty = <<>> THEN u.kitty ELSE Front(u.kitty)
      BY <2>u, <3>3, ObeySays
    <3> QED
      BY <2>1, <2>u, <3>2, <3>4 DEF u
  <2>2. CASE "kitty" \notin mask
    <3>1. Ko = <<>>
      BY <2>2 DEF Part
    <3>2. Settle(u, Ko) = u
      BY <3>1, SettleNothing
    <3> QED
      BY <2>2, <2>u, <3>2 DEF u
  <2> QED
    BY <2>1, <2>2
<1> HIDE DEF Ko
<1> QED
  BY <1>1, <1>3, <1>7, <1>8
-----------------------------------------------------------------------------
(***************************************************************************)
(* The inductive invariant.                                                *)
(***************************************************************************)
\* What is not closed and will put back the mode it found.
Holds(i) == Saves(i) /\ opened[i].state # "closed"

\* Only one call is in progress, what it restores was opened last of all
\* that will still restore something.
CallsInOrder ==
  /\ \A i, j \in DOMAIN opened :
       opened[i].state \in {"raw", "restoring"} /\ opened[j].state \in {"raw", "restoring"} => i = j
  /\ \A i \in DOMAIN opened :
       /\ opened[i].state = "raw" => i = Len(opened)
       /\ opened[i].state \in {"raw", "restoring"} => opened[i].kind = "session" /\ InOrder(i)

\* A console whose mode was 0 was opened: Close does not restore that.
ModeZero == Console /\ \E i \in DOMAIN opened : opened[i].kind # "session" /\ opened[i].saved = {}

\* The first that will still restore the mode found the line of the start;
\* if there is none, that is the line now.
FirstFoundLine0 ==
  ModeZero \/
    /\ (\A i \in DOMAIN opened : ~Holds(i)) => line = line0
    /\ \A i \in DOMAIN opened :
         Holds(i) /\ (\A j \in 1..(i - 1) : ~Holds(j)) => opened[i].saved = line0

IsRaw(flags) == flags \intersect {"processed", "line", "echo"} = {}

\* It made the line raw: all do but a reader for which SetConsoleMode failed.
HoldsRaw(i) == Holds(i) /\ opened[i].kind # "unset"

\* While anything holds the line raw it is, and whoever was opened meanwhile
\* found it so.
RawWhileHeld ==
  /\ (\E i \in DOMAIN opened : HoldsRaw(i)) => IsRaw(line)
  /\ \A i, j \in DOMAIN opened : i < j /\ HoldsRaw(i) /\ Holds(j) => IsRaw(opened[j].saved)

\* A console reader that put the translation to escape sequences off, or
\* found it so.
Keyed(i) ==
  \/ opened[i].kind = "reader"
  \/ opened[i].kind = "unset" /\ "vt" \notin opened[i].saved

\* No translation while such a reader is on top, and what was opened on top
\* of it will restore that.
NoVTOnTop ==
  \A i \in DOMAIN opened :
    Console /\ Keyed(i) /\ opened[i].state = "open" =>
      /\ Topmost(i) => "vt" \notin line
      /\ \A j \in (i + 1)..Len(opened) :
           /\ opened[j].state # "closed"
           /\ \A k \in (i + 1)..(j - 1) : opened[k].state = "closed"
           => "vt" \notin opened[j].saved

\* Only sessions write, and only if that is not suppressed.
SendersAllowed ==
  \A i \in DOMAIN opened : opened[i].sent =>
    opened[i].kind = "session" /\ opened[i].state # "raw" /\ ~Suppressed

\* Before the first write the terminal is as it was found.
QuietUntilSent ==
  killed = 0 /\ ~cut /\ (\A i \in DOMAIN opened : ~opened[i].sent) => wire = <<>> /\ term = term0

Sent     == {i \in DOMAIN opened : opened[i].sent}
Active   == {i \in Sent : opened[i].state = "open"}
KittyOn  == {i \in Active : "kitty" \in opened[i].mask}
Asked    == UNION {ModesOf(opened[i].mask) : i \in Sent}
Held     == UNION {ModesOf(opened[i].mask) : i \in Active}

\* The terminal will have one more entry of flags for each active session
\* that pushed one, and no mode but those it was found with and those an
\* active session asked for.
TerminalAccounted ==
  ~cut =>
    /\ Settled.kitty = term0.kitty \o [k \in 1..Cardinality(KittyOn) |-> "15"]
    /\ term0.modes \ Asked \subseteq Settled.modes
    /\ Settled.modes \subseteq (term0.modes \ Asked) \union Held

ModesInv ==
  /\ TypeOK /\ CallsInOrder /\ FirstFoundLine0 /\ RawWhileHeld /\ NoVTOnTop
  /\ SendersAllowed /\ QuietUntilSent /\ TerminalAccounted
-----------------------------------------------------------------------------
(***************************************************************************)
(* The three ways in which a step changes opened, with what they do to the *)
(* line: something is opened, goes on, or is closed.                       *)
(***************************************************************************)
Opens(e) ==
  /\ opened' \in Seq(Opened) /\ Len(opened') = Len(opened) + 1
  /\ \A j \in 1..Len(opened) : opened'[j] = opened[j]
  /\ opened'[Len(opened) + 1] = e

Moves(i, state, sent) ==
  /\ opened' \in Seq(Opened) /\ Len(opened') = Len(opened)
  /\ \A j \in 1..Len(opened) : j # i => opened'[j] = opened[j]
  /\ opened'[i].kind = opened[i].kind /\ opened'[i].mask = opened[i].mask
  /\ opened'[i].saved = opened[i].saved
  /\ opened'[i].state = state /\ opened'[i].sent = sent

OpeningStep(e) ==
  /\ e \in Opened /\ ~Busy /\ Opens(e) /\ e.saved = line /\ ~e.sent
  /\ Len(opened) + killed < MaxOpened
  /\ \/ e.kind = "session" /\ e.state = "raw" /\ line' = Raw(line)
     \/ e.kind = "session" /\ e.state = "closed" /\ line' = line
     \/ e.kind = "reader" /\ e.state = "open" /\ line' = IF Console THEN ConsoleMode(line) ELSE line
     \/ e.kind = "unset" /\ e.state = "open" /\ Console /\ line' = line
  /\ UNCHANGED <<fixed, term, wire, cut>>

HoldingStep(i, sent) ==
  /\ i \in 1..Len(opened) /\ opened[i].kind = "session" /\ InOrder(i)
  /\ \/ opened[i].state = "raw" /\ Moves(i, "open", sent)
     \/ opened[i].state = "open" /\ ~Busy /\ Moves(i, "restoring", sent)
  /\ UNCHANGED <<fixed, line, term>>

ClosingStep(i) ==
  /\ i \in 1..Len(opened) /\ InOrder(i)
  /\ Moves(i, "closed", opened[i].sent)
  /\ \/ opened[i].kind = "session" /\ opened[i].state \in {"raw", "restoring"}
        /\ line' = opened[i].saved
     \/ opened[i].kind # "session" /\ opened[i].state = "open" /\ ~Busy
        /\ line' = IF Console /\ opened[i].saved # {} THEN opened[i].saved ELSE line
  /\ UNCHANGED <<fixed, term>>

LEMMA OpenedTyped ==
  ASSUME TypeOK
  PROVE  /\ Len(opened) \in Nat /\ DOMAIN opened = 1..Len(opened)
         /\ \A i \in 1..Len(opened) : opened[i] \in Opened
BY ElementOfSeq, LenProperties DEF TypeOK

LEMMA Appended ==
  ASSUME TypeOK, NEW e \in Opened, opened' = Append(opened, e)
  PROVE  Opens(e)
<1>1. Len(opened) \in Nat /\ \A i \in 1..Len(opened) : opened[i] \in Opened
  BY OpenedTyped
<1> QED
  BY <1>1 DEF Opens, TypeOK

LEMMA Moved ==
  ASSUME TypeOK, NEW i \in 1..Len(opened), NEW e \in Opened, opened' = [opened EXCEPT ![i] = e],
         e.kind = opened[i].kind, e.mask = opened[i].mask, e.saved = opened[i].saved
  PROVE  Moves(i, e.state, e.sent)
<1>1. /\ [opened EXCEPT ![i] = e] \in Seq(Opened)
      /\ Len([opened EXCEPT ![i] = e]) = Len(opened)
      /\ \A j \in 1..Len(opened) : [opened EXCEPT ![i] = e][j] = IF j = i THEN e ELSE opened[j]
  BY ExceptSeq DEF TypeOK
<1> QED
  BY <1>1 DEF Moves

LEMMA OpeningSteps ==
  ASSUME TypeOK,
         NewReader \/ NewReaderUnset \/ \E mask \in Masks : MakeRaw(mask) \/ MakeRawFails(mask)
  PROVE  \E e : OpeningStep(e)
<1>1. line \in SUBSET Flags
  BY DEF TypeOK
<1>2. \A mask \in Masks : mask \in SUBSET Protocols
  BY ModesAssumption
<1>3. ASSUME NEW mask \in Masks, MakeRaw(mask)
      PROVE  OpeningStep(Session(mask, "raw"))
  <2>1. Session(mask, "raw") \in Opened
    BY <1>1, <1>2 DEF Session, Opened
  <2>2. Opens(Session(mask, "raw"))
    BY <1>3, <2>1, Appended DEF MakeRaw
  <2> QED
    BY <1>3, <2>1, <2>2 DEF MakeRaw, OpeningStep, CanOpen, Session
<1>4. ASSUME NEW mask \in Masks, MakeRawFails(mask)
      PROVE  OpeningStep(Session(mask, "closed"))
  <2>1. Session(mask, "closed") \in Opened
    BY <1>1, <1>2 DEF Session, Opened
  <2>2. Opens(Session(mask, "closed"))
    BY <1>4, <2>1, Appended DEF MakeRawFails
  <2> QED
    BY <1>4, <2>1, <2>2 DEF MakeRawFails, OpeningStep, CanOpen, Session
<1>5. ASSUME NewReader PROVE \E e : OpeningStep(e)
  <2>1. Reader("reader") \in Opened
    BY <1>1 DEF Reader, Opened
  <2>2. Opens(Reader("reader"))
    BY <1>5, <2>1, Appended DEF NewReader
  <2>3. OpeningStep(Reader("reader"))
    BY <1>5, <2>1, <2>2 DEF NewReader, OpeningStep, CanOpen, Reader
  <2> QED
    BY <2>3
<1>6. ASSUME NewReaderUnset PROVE \E e : OpeningStep(e)
  <2>1. Reader("unset") \in Opened
    BY <1>1 DEF Reader, Opened
  <2>2. Opens(Reader("unset"))
    BY <1>6, <2>1, Appended DEF NewReaderUnset
  <2>3. OpeningStep(Reader("unset"))
    BY <1>6, <2>1, <2>2 DEF NewReaderUnset, OpeningStep, CanOpen, Reader
  <2> QED
    BY <2>3
<1> QED
  BY <1>3, <1>4, <1>5, <1>6

LEMMA HoldingSteps ==
  ASSUME TypeOK, CallsInOrder, NEW i \in 1..Len(opened)
  PROVE  /\ Suppress(i) \/ Restore(i) => HoldingStep(i, opened[i].sent)
         /\ Send(i) => HoldingStep(i, TRUE)
<1>0. opened[i] \in Opened /\ i \in DOMAIN opened
  BY OpenedTyped
<1>1. ASSUME Suppress(i) PROVE HoldingStep(i, opened[i].sent)
  <2> DEFINE e == [opened[i] EXCEPT !.state = "open"]
  <2>1. /\ e \in Opened /\ e.kind = opened[i].kind /\ e.mask = opened[i].mask
        /\ e.saved = opened[i].saved /\ e.state = "open" /\ e.sent = opened[i].sent
    BY <1>0 DEF Opened
  <2>2. opened' = [opened EXCEPT ![i] = e]
    BY <1>1 DEF Suppress
  <2> HIDE DEF e
  <2>3. Moves(i, "open", opened[i].sent)
    BY <2>1, <2>2, Moved
  <2> QED
    BY <1>0, <1>1, <2>3 DEF Suppress, HoldingStep, CallsInOrder
<1>2. ASSUME Restore(i) PROVE HoldingStep(i, opened[i].sent)
  <2> DEFINE e == [opened[i] EXCEPT !.state = "restoring"]
  <2>1. /\ e \in Opened /\ e.kind = opened[i].kind /\ e.mask = opened[i].mask
        /\ e.saved = opened[i].saved /\ e.state = "restoring" /\ e.sent = opened[i].sent
    BY <1>0 DEF Opened
  <2>2. opened' = [opened EXCEPT ![i] = e]
    BY <1>2 DEF Restore
  <2> HIDE DEF e
  <2>3. Moves(i, "restoring", opened[i].sent)
    BY <2>1, <2>2, Moved
  <2> QED
    BY <1>2, <2>3 DEF Restore, HoldingStep
<1>3. ASSUME Send(i) PROVE HoldingStep(i, TRUE)
  <2> DEFINE e == [opened[i] EXCEPT !.state = "open", !.sent = TRUE]
  <2>1. /\ e \in Opened /\ e.kind = opened[i].kind /\ e.mask = opened[i].mask
        /\ e.saved = opened[i].saved /\ e.state = "open" /\ e.sent = TRUE
    BY <1>0 DEF Opened
  <2>2. opened' = [opened EXCEPT ![i] = e]
    BY <1>3 DEF Send
  <2> HIDE DEF e
  <2>3. Moves(i, "open", TRUE)
    BY <2>1, <2>2, Moved
  <2> QED
    BY <1>0, <1>3, <2>3 DEF Send, HoldingStep, CallsInOrder
<1> QED
  BY <1>1, <1>2, <1>3

LEMMA ClosingSteps ==
  ASSUME TypeOK, CallsInOrder, NEW i \in 1..Len(opened),
         SendFails(i) \/ Close(i) \/ RestoreLine(i)
  PROVE  ClosingStep(i)
<1>0. opened[i] \in Opened /\ i \in DOMAIN opened
  BY OpenedTyped
<1> DEFINE e == [opened[i] EXCEPT !.state = "closed"]
<1>1. /\ e \in Opened /\ e.kind = opened[i].kind /\ e.mask = opened[i].mask
      /\ e.saved = opened[i].saved /\ e.state = "closed" /\ e.sent = opened[i].sent
  BY <1>0 DEF Opened
<1>2. opened' = [opened EXCEPT ![i] = e]
  BY DEF SendFails, Close, RestoreLine
<1> HIDE DEF e
<1>3. Moves(i, "closed", opened[i].sent)
  BY <1>1, <1>2, Moved
<1>4. CASE SendFails(i)
  BY <1>0, <1>3, <1>4 DEF SendFails, ClosingStep, CallsInOrder
<1>5. CASE Close(i)
  BY <1>3, <1>5 DEF Close, ClosingStep
<1>6. CASE RestoreLine(i)
  BY <1>0, <1>3, <1>6 DEF RestoreLine, ClosingStep, CallsInOrder
<1> QED
  BY <1>4, <1>5, <1>6
\* What the three kinds of steps leave as it was.
LEMMA OpeningSays ==
  ASSUME TypeOK, NEW e, OpeningStep(e), NEW n, n = Len(opened)
  PROVE  /\ n \in Nat /\ DOMAIN opened = 1..n
         /\ DOMAIN opened' = 1..(n + 1) /\ Len(opened') = n + 1
         /\ (Console' <=> Console) /\ (Suppressed' <=> Suppressed)
         /\ \A j \in 1..n :
              /\ opened'[j] = opened[j] /\ ((Saves(j))' <=> Saves(j)) /\ ((Holds(j))' <=> Holds(j))
              /\ opened[j].state \notin {"raw", "restoring"}
         /\ opened'[n + 1] = e
         /\ (Saves(n + 1))' <=> (e.kind = "session" \/ Console)
         /\ (Holds(n + 1))' <=> ((e.kind = "session" \/ Console) /\ e.state # "closed")
<1>1. n \in Nat /\ DOMAIN opened = 1..n
  BY OpenedTyped
<1>2. /\ opened' \in Seq(Opened) /\ Len(opened') = n + 1
      /\ \A j \in 1..n : opened'[j] = opened[j]
      /\ opened'[n + 1] = e
  BY DEF OpeningStep, Opens
<1>3. DOMAIN opened' = 1..(n + 1)
  BY <1>2, LenProperties
<1>4. (Console' <=> Console) /\ (Suppressed' <=> Suppressed)
  BY DEF OpeningStep, fixed, Console, Suppressed
<1>5. \A j \in 1..n : opened[j].state \notin {"raw", "restoring"}
  BY <1>1 DEF OpeningStep, Busy
<1>6. \A j \in 1..n : ((Saves(j))' <=> Saves(j)) /\ ((Holds(j))' <=> Holds(j))
  BY <1>2, <1>4 DEF Saves, Holds
<1>7. /\ (Saves(n + 1))' <=> (e.kind = "session" \/ Console)
      /\ (Holds(n + 1))' <=> ((e.kind = "session" \/ Console) /\ e.state # "closed")
  BY <1>2, <1>4 DEF Saves, Holds
<1> QED
  BY <1>1, <1>2, <1>3, <1>4, <1>5, <1>6, <1>7

LEMMA MovingSays ==
  ASSUME TypeOK, NEW i \in 1..Len(opened), NEW state, NEW sent, Moves(i, state, sent),
         UNCHANGED fixed
  PROVE  /\ Len(opened) \in Nat /\ DOMAIN opened = 1..Len(opened)
         /\ DOMAIN opened' = 1..Len(opened) /\ Len(opened') = Len(opened)
         /\ (Console' <=> Console) /\ (Suppressed' <=> Suppressed)
         /\ \A j \in 1..Len(opened) :
              /\ opened'[j].kind = opened[j].kind /\ opened'[j].saved = opened[j].saved
              /\ opened'[j].mask = opened[j].mask /\ ((Saves(j))' <=> Saves(j))
              /\ j # i => opened'[j] = opened[j] /\ ((Holds(j))' <=> Holds(j))
         /\ opened'[i].state = state /\ opened'[i].sent = sent
         /\ (Holds(i))' <=> (Saves(i) /\ state # "closed")
<1>1. Len(opened) \in Nat /\ DOMAIN opened = 1..Len(opened)
  BY OpenedTyped
<1>2. /\ opened' \in Seq(Opened) /\ Len(opened') = Len(opened)
      /\ \A j \in 1..Len(opened) : j # i => opened'[j] = opened[j]
      /\ opened'[i].kind = opened[i].kind /\ opened'[i].mask = opened[i].mask
      /\ opened'[i].saved = opened[i].saved
      /\ opened'[i].state = state /\ opened'[i].sent = sent
  BY DEF Moves
<1>3. DOMAIN opened' = 1..Len(opened)
  BY <1>2, LenProperties
<1>4. (Console' <=> Console) /\ (Suppressed' <=> Suppressed)
  BY DEF fixed, Console, Suppressed
<1>5. \A j \in 1..Len(opened) :
        /\ opened'[j].kind = opened[j].kind /\ opened'[j].saved = opened[j].saved
        /\ opened'[j].mask = opened[j].mask
  BY <1>2
<1>6. \A j \in 1..Len(opened) : ((Saves(j))' <=> Saves(j))
  BY <1>4, <1>5 DEF Saves
<1>7. \A j \in 1..Len(opened) : j # i => ((Holds(j))' <=> Holds(j))
  BY <1>2, <1>6 DEF Holds
<1>8. (Holds(i))' <=> (Saves(i) /\ state # "closed")
  BY <1>2, <1>6 DEF Holds
<1> QED
  BY <1>1, <1>2, <1>3, <1>4, <1>5, <1>6, <1>7, <1>8

-----------------------------------------------------------------------------
LEMMA CallsInOrderOpening ==
  ASSUME TypeOK, CallsInOrder, NEW e, OpeningStep(e)
  PROVE  CallsInOrder'
<1>n. PICK n : n = Len(opened)
  OBVIOUS
<1>1. /\ n \in Nat /\ DOMAIN opened' = 1..(n + 1) /\ Len(opened') = n + 1
      /\ \A j \in 1..n : opened'[j] = opened[j] /\ opened[j].state \notin {"raw", "restoring"}
      /\ opened'[n + 1] = e
  BY <1>n, OpeningSays
<1>2. \A j \in 1..(n + 1) : opened'[j].state \in {"raw", "restoring"} =>
        j = n + 1 /\ opened'[j].kind = "session" /\ e.state # "restoring"
  BY <1>1 DEF OpeningStep
<1>3. (n + 1 + 1)..(n + 1) = {}
  BY <1>1
<1>4. (InOrder(n + 1))'
  BY <1>1, <1>3 DEF InOrder
<1> QED
  BY <1>1, <1>2, <1>4 DEF CallsInOrder

LEMMA CallsInOrderHolding ==
  ASSUME TypeOK, CallsInOrder, NEW i, NEW sent, HoldingStep(i, sent)
  PROVE  CallsInOrder'
<1> DEFINE n == Len(opened)
<1>0. i \in 1..n /\ UNCHANGED fixed /\ InOrder(i) /\ opened[i].kind = "session"
  BY DEF HoldingStep
<1>1. PICK st \in {"open", "restoring"} : Moves(i, st, sent)
  BY DEF HoldingStep
<1>2. /\ n \in Nat /\ DOMAIN opened = 1..n /\ DOMAIN opened' = 1..n /\ Len(opened') = n
      /\ \A j \in 1..n : /\ opened'[j].kind = opened[j].kind /\ ((Saves(j))' <=> Saves(j))
                         /\ j # i => opened'[j] = opened[j]
      /\ opened'[i].state = st
  BY <1>0, <1>1, MovingSays
<1>3. \A j \in 1..n : j # i => opened[j].state \notin {"raw", "restoring"}
  BY <1>2, <1>0 DEF HoldingStep, CallsInOrder, Busy
<1>4. \A j \in 1..n : opened'[j].state \in {"raw", "restoring"} => j = i /\ opened'[j].state # "raw"
  BY <1>2, <1>3
<1>5. (InOrder(i))'
  BY <1>0, <1>2 DEF InOrder
<1> QED
  BY <1>0, <1>2, <1>4, <1>5 DEF CallsInOrder

LEMMA CallsInOrderClosing ==
  ASSUME TypeOK, CallsInOrder, NEW i, ClosingStep(i)
  PROVE  CallsInOrder'
<1> DEFINE n == Len(opened)
<1>0. i \in 1..n /\ UNCHANGED fixed /\ Moves(i, "closed", opened[i].sent)
  BY DEF ClosingStep
<1>2. /\ n \in Nat /\ DOMAIN opened = 1..n /\ DOMAIN opened' = 1..n /\ Len(opened') = n
      /\ \A j \in 1..n : j # i => opened'[j] = opened[j]
      /\ opened'[i].state = "closed"
  BY <1>0, MovingSays
<1>3. \A j \in 1..n : j # i => opened[j].state \notin {"raw", "restoring"}
  BY <1>2, <1>0 DEF ClosingStep, CallsInOrder, Busy
<1>4. \A j \in 1..n : opened'[j].state \notin {"raw", "restoring"}
  BY <1>2, <1>3
<1> QED
  BY <1>2, <1>4 DEF CallsInOrder

-----------------------------------------------------------------------------
LEMMA FirstFoundLine0Opening ==
  ASSUME TypeOK, FirstFoundLine0, NEW e, OpeningStep(e)
  PROVE  FirstFoundLine0'
<1>n. PICK n : n = Len(opened)
  OBVIOUS
<1>1. /\ n \in Nat /\ DOMAIN opened = 1..n /\ DOMAIN opened' = 1..(n + 1) /\ (Console' <=> Console)
      /\ \A j \in 1..n : opened'[j] = opened[j] /\ ((Holds(j))' <=> Holds(j))
      /\ opened'[n + 1] = e
      /\ (Holds(n + 1))' <=> ((e.kind = "session" \/ Console) /\ e.state # "closed")
  BY <1>n, OpeningSays
<1>2. line0' = line0 /\ e.saved = line /\ (line' # line => (Holds(n + 1))')
  BY <1>1 DEF OpeningStep, fixed
<1>3. ModeZero => ModeZero'
  BY <1>1 DEF ModeZero
<1>4. ASSUME ~ModeZero PROVE (\A i \in DOMAIN opened : ~Holds(i))' => line' = line0'
  BY <1>1, <1>2, <1>4 DEF FirstFoundLine0
<1>5. ASSUME ~ModeZero, NEW i \in 1..(n + 1), (Holds(i))', \A j \in 1..(i - 1) : ~(Holds(j))'
      PROVE  opened'[i].saved = line0'
  <2>1. CASE i = n + 1
    <3>1. \A j \in 1..n : ~Holds(j)
      BY <1>1, <1>5, <2>1
    <3> QED
      BY <1>1, <1>2, <1>5, <2>1, <3>1 DEF FirstFoundLine0
  <2>2. CASE i # n + 1
    <3>1. i \in 1..n /\ Holds(i) /\ \A j \in 1..(i - 1) : ~Holds(j)
      BY <1>1, <1>5, <2>2
    <3> QED
      BY <1>1, <1>2, <1>5, <3>1 DEF FirstFoundLine0
  <2> QED
    BY <2>1, <2>2
<1> QED
  BY <1>1, <1>3, <1>4, <1>5 DEF FirstFoundLine0

LEMMA FirstFoundLine0Holding ==
  ASSUME TypeOK, FirstFoundLine0, NEW i, NEW sent, HoldingStep(i, sent)
  PROVE  FirstFoundLine0'
<1> DEFINE n == Len(opened)
<1>0. /\ i \in 1..n /\ UNCHANGED fixed /\ line' = line /\ opened[i].state # "closed"
      /\ opened[i].kind = "session"
  BY DEF HoldingStep
<1>1. PICK st \in {"open", "restoring"} : Moves(i, st, sent)
  BY DEF HoldingStep
<1>2. /\ n \in Nat /\ DOMAIN opened = 1..n /\ DOMAIN opened' = 1..n /\ (Console' <=> Console)
      /\ \A j \in 1..n : /\ opened'[j].kind = opened[j].kind /\ opened'[j].saved = opened[j].saved
                         /\ j # i => ((Holds(j))' <=> Holds(j))
      /\ (Holds(i))' <=> (Saves(i) /\ st # "closed")
  BY <1>0, <1>1, MovingSays
<1>3. \A j \in 1..n : ((Holds(j))' <=> Holds(j))
  BY <1>0, <1>2 DEF Holds
<1>4. line0' = line0
  BY <1>0 DEF fixed
<1>5. ModeZero' <=> ModeZero
  BY <1>2 DEF ModeZero
<1>6. CASE ModeZero
  BY <1>5, <1>6 DEF FirstFoundLine0
<1>7. CASE ~ModeZero
  <2>1. (\A j \in DOMAIN opened : ~Holds(j))' => line' = line0'
    BY <1>0, <1>2, <1>3, <1>4, <1>7 DEF FirstFoundLine0
  <2>2. ASSUME NEW k \in 1..n, (Holds(k))', \A j \in 1..(k - 1) : ~(Holds(j))'
        PROVE  opened'[k].saved = line0'
    <3>1. Holds(k) /\ \A j \in 1..(k - 1) : ~Holds(j)
      BY <1>2, <1>3, <2>2
    <3> QED
      BY <1>2, <1>4, <1>7, <3>1 DEF FirstFoundLine0
  <2> QED
    BY <1>2, <2>1, <2>2 DEF FirstFoundLine0
<1> QED
  BY <1>6, <1>7

LEMMA FirstFoundLine0Closing ==
  ASSUME TypeOK, FirstFoundLine0, NEW i, ClosingStep(i)
  PROVE  FirstFoundLine0'
<1> DEFINE n == Len(opened)
<1>0. /\ i \in 1..n /\ UNCHANGED fixed /\ Moves(i, "closed", opened[i].sent) /\ InOrder(i)
      /\ opened[i].state # "closed"
  BY DEF ClosingStep
<1>2. /\ n \in Nat /\ DOMAIN opened = 1..n /\ DOMAIN opened' = 1..n /\ (Console' <=> Console)
      /\ \A j \in 1..n : /\ opened'[j].kind = opened[j].kind /\ opened'[j].saved = opened[j].saved
                         /\ j # i => ((Holds(j))' <=> Holds(j))
      /\ ~(Holds(i))'
  BY <1>0, MovingSays
<1>4. line0' = line0
  BY <1>0 DEF fixed
<1>5. ModeZero' <=> ModeZero
  BY <1>2 DEF ModeZero
<1>6. CASE ModeZero
  BY <1>5, <1>6 DEF FirstFoundLine0
<1>7. CASE ~ModeZero
  <2>0. \/ Holds(i) /\ line' = opened[i].saved
        \/ ~Holds(i) /\ line' = line
    <3>1. CASE opened[i].kind = "session"
      BY <1>0, <3>1 DEF ClosingStep, Holds, Saves
    <3>2. CASE opened[i].kind # "session"
      <4>1. Console => opened[i].saved # {}
        BY <1>0, <1>2, <1>7, <3>2 DEF ModeZero
      <4> QED
        BY <1>0, <3>2, <4>1 DEF ClosingStep, Holds, Saves
    <3> QED
      BY <3>1, <3>2 DEF ClosingStep
  <2>a. \A j \in (i + 1)..n : Holds(i) => ~Holds(j)
    BY <1>0 DEF InOrder, Holds
  <2>1. ASSUME \A j \in 1..n : ~(Holds(j))' PROVE line' = line0'
    <3>1. \A j \in 1..n : j # i => ~Holds(j)
      BY <1>2, <2>1
    <3>2. CASE Holds(i)
      <4>1. \A j \in 1..(i - 1) : ~Holds(j)
        BY <1>0, <1>2, <3>1
      <4> QED
        BY <1>0, <1>2, <1>4, <1>7, <2>0, <3>2, <4>1 DEF FirstFoundLine0
    <3>3. CASE ~Holds(i)
      BY <1>2, <1>4, <1>7, <2>0, <3>1, <3>3 DEF FirstFoundLine0
    <3> QED
      BY <3>2, <3>3
  <2>2. ASSUME NEW k \in 1..n, (Holds(k))', \A j \in 1..(k - 1) : ~(Holds(j))'
        PROVE  opened'[k].saved = line0'
    <3>1. k # i /\ Holds(k)
      BY <1>2, <2>2
    <3>2. Holds(i) => k < i
      BY <1>0, <1>2, <2>a, <3>1
    <3>3. \A j \in 1..(k - 1) : ~Holds(j)
      BY <1>0, <1>2, <2>2, <3>2
    <3> QED
      BY <1>2, <1>4, <1>7, <3>1, <3>3 DEF FirstFoundLine0
  <2> QED
    BY <1>2, <2>1, <2>2 DEF FirstFoundLine0
<1> QED
  BY <1>6, <1>7
-----------------------------------------------------------------------------
LEMMA RawWhileHeldOpening ==
  ASSUME TypeOK, RawWhileHeld, NEW e, OpeningStep(e)
  PROVE  RawWhileHeld'
<1>n. PICK n : n = Len(opened)
  OBVIOUS
<1>1. /\ n \in Nat /\ DOMAIN opened = 1..n /\ DOMAIN opened' = 1..(n + 1)
      /\ \A j \in 1..n : opened'[j] = opened[j] /\ ((Holds(j))' <=> Holds(j))
      /\ opened'[n + 1] = e
      /\ (Holds(n + 1))' <=> ((e.kind = "session" \/ Console) /\ e.state # "closed")
  BY <1>n, OpeningSays
<1>r. \A j \in 1..n : (HoldsRaw(j))' <=> HoldsRaw(j)
  BY <1>1 DEF HoldsRaw
<1>2. \/ IsRaw(line')
      \/ line' = line /\ ~(HoldsRaw(n + 1))'
  BY <1>1 DEF OpeningStep, IsRaw, Raw, ConsoleMode, HoldsRaw
<1>3. ASSUME NEW j \in 1..(n + 1), (HoldsRaw(j))' PROVE IsRaw(line')
  <2>1. CASE IsRaw(line')
    BY <2>1
  <2>2. CASE line' = line /\ ~(HoldsRaw(n + 1))'
    <3>1. j \in 1..n /\ HoldsRaw(j)
      BY <1>1, <1>r, <1>3, <2>2
    <3> QED
      BY <1>1, <2>2, <3>1 DEF RawWhileHeld
  <2> QED
    BY <1>2, <2>1, <2>2
<1>4. ASSUME NEW i \in 1..(n + 1), NEW j \in 1..(n + 1), i < j, (HoldsRaw(i))', (Holds(j))'
      PROVE  IsRaw(opened'[j].saved)
  <2>1. i \in 1..n /\ HoldsRaw(i)
    BY <1>1, <1>r, <1>4
  <2>2. CASE j = n + 1
    BY <1>1, <2>1, <2>2 DEF OpeningStep, RawWhileHeld
  <2>3. CASE j # n + 1
    <3>1. j \in 1..n /\ Holds(j)
      BY <1>1, <1>4, <2>3
    <3> QED
      BY <1>1, <1>4, <2>1, <3>1 DEF RawWhileHeld
  <2> QED
    BY <2>2, <2>3
<1> QED
  BY <1>1, <1>3, <1>4 DEF RawWhileHeld, IsRaw

LEMMA RawWhileHeldHolding ==
  ASSUME TypeOK, RawWhileHeld, NEW i, NEW sent, HoldingStep(i, sent)
  PROVE  RawWhileHeld'
<1>n. PICK n : n = Len(opened)
  OBVIOUS
<1>0. /\ i \in 1..n /\ UNCHANGED fixed /\ line' = line /\ opened[i].state # "closed"
      /\ opened[i].kind = "session"
  BY <1>n DEF HoldingStep
<1>1. PICK st \in {"open", "restoring"} : Moves(i, st, sent)
  BY DEF HoldingStep
<1>2. /\ n \in Nat /\ DOMAIN opened = 1..n /\ DOMAIN opened' = 1..n
      /\ \A j \in 1..n : /\ opened'[j].kind = opened[j].kind /\ opened'[j].saved = opened[j].saved
                         /\ j # i => ((Holds(j))' <=> Holds(j))
      /\ (Holds(i))' <=> (Saves(i) /\ st # "closed")
  BY <1>0, <1>1, <1>n, MovingSays
<1>3. \A j \in 1..n : (Holds(j))' <=> Holds(j)
  BY <1>0, <1>2 DEF Holds
<1>4. \A j \in 1..n : (HoldsRaw(j))' <=> HoldsRaw(j)
  BY <1>2, <1>3 DEF HoldsRaw
<1> QED
  BY <1>0, <1>2, <1>3, <1>4 DEF RawWhileHeld, IsRaw

LEMMA RawWhileHeldClosing ==
  ASSUME TypeOK, RawWhileHeld, NEW i, ClosingStep(i)
  PROVE  RawWhileHeld'
<1>n. PICK n : n = Len(opened)
  OBVIOUS
<1>0. /\ i \in 1..n /\ UNCHANGED fixed /\ Moves(i, "closed", opened[i].sent) /\ InOrder(i)
      /\ opened[i].state # "closed"
  BY <1>n DEF ClosingStep
<1>2. /\ n \in Nat /\ DOMAIN opened = 1..n /\ DOMAIN opened' = 1..n
      /\ \A j \in 1..n : /\ opened'[j].kind = opened[j].kind /\ opened'[j].saved = opened[j].saved
                         /\ j # i => ((Holds(j))' <=> Holds(j))
      /\ ~(Holds(i))'
  BY <1>0, <1>n, MovingSays
<1>3. \/ Holds(i) /\ line' = opened[i].saved
      \/ line' = line
  BY <1>0 DEF ClosingStep, Holds, Saves
<1>4. \A j \in (i + 1)..n : Holds(i) => ~Holds(j)
  BY <1>0, <1>n DEF InOrder, Holds
<1>r. \A j \in 1..n : (HoldsRaw(j))' => j # i /\ HoldsRaw(j)
  BY <1>2 DEF HoldsRaw
<1>5. ASSUME NEW j \in 1..n, (HoldsRaw(j))' PROVE IsRaw(line')
  <2>1. j # i /\ HoldsRaw(j) /\ Holds(j)
    BY <1>r, <1>5 DEF HoldsRaw
  <2>2. CASE Holds(i) /\ line' = opened[i].saved
    <3>1. j < i
      BY <1>0, <1>2, <1>4, <2>1, <2>2
    <3> QED
      BY <1>0, <1>2, <2>1, <2>2, <3>1 DEF RawWhileHeld
  <2>3. CASE line' = line
    BY <1>2, <2>1, <2>3 DEF RawWhileHeld
  <2> QED
    BY <1>3, <2>2, <2>3
<1>6. ASSUME NEW j \in 1..n, NEW k \in 1..n, j < k, (HoldsRaw(j))', (Holds(k))'
      PROVE  IsRaw(opened'[k].saved)
  <2>1. HoldsRaw(j) /\ Holds(k)
    BY <1>2, <1>r, <1>6
  <2> QED
    BY <1>2, <1>6, <2>1 DEF RawWhileHeld
<1> QED
  BY <1>2, <1>5, <1>6 DEF RawWhileHeld, IsRaw

-----------------------------------------------------------------------------
LEMMA NoVTOnTopOpening ==
  ASSUME TypeOK, NoVTOnTop, NEW e, OpeningStep(e)
  PROVE  NoVTOnTop'
<1>n. PICK n : n = Len(opened)
  OBVIOUS
<1>1. /\ n \in Nat /\ DOMAIN opened = 1..n /\ DOMAIN opened' = 1..(n + 1) /\ Len(opened') = n + 1
      /\ (Console' <=> Console)
      /\ \A j \in 1..n : opened'[j] = opened[j]
      /\ opened'[n + 1] = e
  BY <1>n, OpeningSays
<1>2. SUFFICES ASSUME NEW i \in 1..(n + 1), Console, (Keyed(i))',
                      opened'[i].state = "open"
               PROVE  /\ (Topmost(i))' => "vt" \notin line'
                      /\ \A j \in (i + 1)..(n + 1) :
                           /\ opened'[j].state # "closed"
                           /\ \A k \in (i + 1)..(j - 1) : opened'[k].state = "closed"
                           => "vt" \notin opened'[j].saved
  BY <1>1 DEF NoVTOnTop
<1>3. CASE i = n + 1
  <2>1. "vt" \notin line'
    BY <1>1, <1>2, <1>3 DEF OpeningStep, ConsoleMode, Keyed
  <2>2. (i + 1)..(n + 1) = {}
    BY <1>1, <1>3
  <2> QED
    BY <2>1, <2>2
<1>4. CASE i # n + 1
  <2>1. i \in 1..n /\ Keyed(i) /\ opened[i].state = "open"
    BY <1>1, <1>2, <1>4 DEF Keyed
  <2>2. (\A k \in (i + 1)..n : opened'[k].state = "closed") => "vt" \notin line
    BY <1>1, <1>2, <1>n, <2>1 DEF NoVTOnTop, Topmost
  <2>3. ASSUME (Topmost(i))' PROVE "vt" \notin line'
    <3>1. e.state = "closed" /\ \A k \in (i + 1)..n : opened'[k].state = "closed"
      BY <1>1, <2>1, <2>3 DEF Topmost
    <3>2. line' = line
      BY <3>1 DEF OpeningStep
    <3> QED
      BY <2>2, <3>1, <3>2
  <2>4. ASSUME NEW j \in (i + 1)..(n + 1), opened'[j].state # "closed",
               \A k \in (i + 1)..(j - 1) : opened'[k].state = "closed"
        PROVE  "vt" \notin opened'[j].saved
    <3>1. CASE j = n + 1
      <4>1. \A k \in (i + 1)..n : opened'[k].state = "closed"
        BY <1>1, <2>4, <3>1
      <4> QED
        BY <1>1, <2>2, <3>1, <4>1 DEF OpeningStep
    <3>2. CASE j # n + 1
      <4>1. j \in (i + 1)..n /\ j \in 1..n /\ \A k \in (i + 1)..(j - 1) : k \in 1..n
        BY <1>1, <2>1, <2>4, <3>2
      <4>2. opened[j].state # "closed" /\ \A k \in (i + 1)..(j - 1) : opened[k].state = "closed"
        BY <1>1, <2>4, <4>1
      <4>3. "vt" \notin opened[j].saved
        BY <1>1, <1>2, <1>n, <2>1, <4>1, <4>2 DEF NoVTOnTop
      <4> QED
        BY <1>1, <4>1, <4>3
    <3> QED
      BY <3>1, <3>2
  <2> QED
    BY <2>3, <2>4
<1> QED
  BY <1>3, <1>4

LEMMA NoVTOnTopHolding ==
  ASSUME TypeOK, NoVTOnTop, NEW i, NEW sent, HoldingStep(i, sent)
  PROVE  NoVTOnTop'
<1>n. PICK n : n = Len(opened)
  OBVIOUS
<1>0. /\ i \in 1..n /\ UNCHANGED fixed /\ line' = line /\ opened[i].state # "closed"
      /\ opened[i].kind = "session"
  BY <1>n DEF HoldingStep
<1>1. PICK st \in {"open", "restoring"} : Moves(i, st, sent)
  BY DEF HoldingStep
<1>2. /\ n \in Nat /\ DOMAIN opened = 1..n /\ DOMAIN opened' = 1..n /\ Len(opened') = n
      /\ (Console' <=> Console)
      /\ \A j \in 1..n : /\ opened'[j].kind = opened[j].kind /\ opened'[j].saved = opened[j].saved
                         /\ j # i => opened'[j] = opened[j]
      /\ opened'[i].state = st
  BY <1>0, <1>1, <1>n, MovingSays
<1>3. \A j \in 1..n : (opened'[j].state = "closed") <=> (opened[j].state = "closed")
  BY <1>0, <1>2
<1>4. \A j \in 1..n : (Keyed(j))' => opened'[j] = opened[j] /\ Keyed(j)
  BY <1>0, <1>2 DEF Keyed
<1>5. SUFFICES ASSUME NEW r \in 1..n, Console, (Keyed(r))',
                      opened'[r].state = "open"
               PROVE  /\ (Topmost(r))' => "vt" \notin line'
                      /\ \A j \in (r + 1)..n :
                           /\ opened'[j].state # "closed"
                           /\ \A k \in (r + 1)..(j - 1) : opened'[k].state = "closed"
                           => "vt" \notin opened'[j].saved
  BY <1>2 DEF NoVTOnTop
<1>6. Keyed(r) /\ opened[r].state = "open"
  BY <1>4, <1>5
<1>7. (Topmost(r))' => Topmost(r)
  BY <1>2, <1>3, <1>n DEF Topmost
<1>8. ASSUME NEW j \in (r + 1)..n, opened'[j].state # "closed",
             \A k \in (r + 1)..(j - 1) : opened'[k].state = "closed"
      PROVE  "vt" \notin opened'[j].saved
  <2>1. j \in 1..n /\ \A k \in (r + 1)..(j - 1) : k \in 1..n
    BY <1>2, <1>8
  <2>2. opened[j].state # "closed" /\ \A k \in (r + 1)..(j - 1) : opened[k].state = "closed"
    BY <1>3, <1>8, <2>1
  <2>3. "vt" \notin opened[j].saved
    BY <1>2, <1>5, <1>6, <1>n, <2>2 DEF NoVTOnTop
  <2> QED
    BY <1>2, <2>1, <2>3
<1> QED
  BY <1>0, <1>2, <1>5, <1>6, <1>7, <1>8 DEF NoVTOnTop

LEMMA NoVTOnTopClosing ==
  ASSUME TypeOK, NoVTOnTop, NEW i, ClosingStep(i)
  PROVE  NoVTOnTop'
<1>n. PICK n : n = Len(opened)
  OBVIOUS
<1>0. /\ i \in 1..n /\ UNCHANGED fixed /\ Moves(i, "closed", opened[i].sent) /\ InOrder(i)
      /\ opened[i].state # "closed"
  BY <1>n DEF ClosingStep
<1>2. /\ n \in Nat /\ DOMAIN opened = 1..n /\ DOMAIN opened' = 1..n /\ Len(opened') = n
      /\ (Console' <=> Console)
      /\ \A j \in 1..n : /\ opened'[j].kind = opened[j].kind /\ opened'[j].saved = opened[j].saved
                         /\ j # i => opened'[j] = opened[j]
      /\ opened'[i].state = "closed"
  BY <1>0, <1>n, MovingSays
<1>5. SUFFICES ASSUME NEW r \in 1..n, Console, (Keyed(r))',
                      opened'[r].state = "open"
               PROVE  /\ (Topmost(r))' => "vt" \notin line'
                      /\ \A j \in (r + 1)..n :
                           /\ opened'[j].state # "closed"
                           /\ \A k \in (r + 1)..(j - 1) : opened'[k].state = "closed"
                           => "vt" \notin opened'[j].saved
  BY <1>2 DEF NoVTOnTop
<1>6. r # i /\ Keyed(r) /\ opened[r].state = "open"
  BY <1>2, <1>5 DEF Keyed
\* What is closed is the last that is open at all.
<1>7. /\ \A j \in (i + 1)..n : opened[j].state = "closed"
      /\ r < i
  <2>1. \A j \in 1..n : Saves(j)
    BY <1>5 DEF Saves
  <2>2. \A j \in (i + 1)..n : opened[j].state = "closed"
    BY <1>0, <1>2, <1>n, <2>1 DEF InOrder
  <2> QED
    BY <1>0, <1>2, <1>6, <2>2
<1>8. ASSUME (Topmost(r))' PROVE "vt" \notin line'
  <2>1. \A k \in (r + 1)..(i - 1) : opened[k].state = "closed"
    <3> TAKE k \in (r + 1)..(i - 1)
    <3>1. k \in (r + 1)..n /\ k # i /\ k \in 1..n
      BY <1>0, <1>2
    <3> QED
      BY <1>2, <1>8, <3>1 DEF Topmost
  <2>2. i \in (r + 1)..n
    BY <1>0, <1>2, <1>7
  <2>3. "vt" \notin opened[i].saved
    BY <1>0, <1>2, <1>5, <1>6, <1>n, <2>1, <2>2 DEF NoVTOnTop
  <2>4. CASE line' = opened[i].saved
    BY <2>3, <2>4
  <2>5. CASE line' = line /\ opened[i].kind # "session" /\ opened[i].state = "open"
    <3>1. Topmost(i)
      BY <1>7, <1>n DEF Topmost
    <3>2. Keyed(i)
      BY <1>0, <1>n, <2>3, <2>5, OpenedTyped DEF Keyed, Opened
    <3> QED
      BY <1>0, <1>2, <1>5, <2>5, <3>1, <3>2 DEF NoVTOnTop
  <2> QED
    BY <2>4, <2>5 DEF ClosingStep
<1>9. ASSUME NEW j \in (r + 1)..n, opened'[j].state # "closed",
             \A k \in (r + 1)..(j - 1) : opened'[k].state = "closed"
      PROVE  "vt" \notin opened'[j].saved
  <2>1. j \in 1..n /\ j # i /\ opened[j].state # "closed"
    BY <1>2, <1>9
  <2>2. j < i
    BY <1>0, <1>2, <1>7, <1>9, <2>1
  <2>3. \A k \in (r + 1)..(j - 1) : k \in 1..n /\ k # i
    BY <1>0, <1>2, <1>9, <2>1, <2>2
  <2>4. \A k \in (r + 1)..(j - 1) : opened[k].state = "closed"
    BY <1>2, <1>9, <2>3
  <2>5. "vt" \notin opened[j].saved
    BY <1>2, <1>5, <1>6, <1>9, <1>n, <2>1, <2>4 DEF NoVTOnTop
  <2> QED
    BY <1>2, <2>1, <2>5
<1> QED
  BY <1>8, <1>9

-----------------------------------------------------------------------------
LEMMA SendersAllowedOpening ==
  ASSUME TypeOK, SendersAllowed, NEW e, OpeningStep(e)
  PROVE  SendersAllowed'
<1>n. PICK n : n = Len(opened)
  OBVIOUS
<1>1. /\ n \in Nat /\ DOMAIN opened = 1..n /\ DOMAIN opened' = 1..(n + 1)
      /\ (Suppressed' <=> Suppressed)
      /\ \A j \in 1..n : opened'[j] = opened[j]
      /\ opened'[n + 1] = e
  BY <1>n, OpeningSays
<1>2. ~e.sent
  BY DEF OpeningStep
<1>3. \A j \in 1..(n + 1) : j = n + 1 \/ j \in 1..n
  BY <1>1
<1> QED
  BY <1>1, <1>2, <1>3 DEF SendersAllowed

LEMMA SendersAllowedMoving ==
  ASSUME TypeOK, SendersAllowed, NEW i \in 1..Len(opened), NEW st, NEW sent,
         Moves(i, st, sent), UNCHANGED fixed, st # "raw",
         sent = opened[i].sent \/ (opened[i].kind = "session" /\ ~Suppressed)
  PROVE  SendersAllowed'
<1>n. PICK n : n = Len(opened)
  OBVIOUS
<1>2. /\ n \in Nat /\ DOMAIN opened = 1..n /\ DOMAIN opened' = 1..n
      /\ (Suppressed' <=> Suppressed)
      /\ \A j \in 1..n : /\ opened'[j].kind = opened[j].kind
                         /\ j # i => opened'[j] = opened[j]
      /\ opened'[i].state = st /\ opened'[i].sent = sent
  BY <1>n, MovingSays
<1>3. \A j \in 1..n : opened'[j].sent =>
        opened'[j].kind = "session" /\ opened'[j].state # "raw" /\ ~Suppressed
  <2> SUFFICES ASSUME NEW j \in 1..n, opened'[j].sent
               PROVE  opened'[j].kind = "session" /\ opened'[j].state # "raw" /\ ~Suppressed
    OBVIOUS
  <2>1. CASE j = i
    BY <1>2, <2>1 DEF SendersAllowed
  <2>2. CASE j # i
    BY <1>2, <2>2 DEF SendersAllowed
  <2> QED
    BY <2>1, <2>2
<1> QED
  BY <1>2, <1>3 DEF SendersAllowed
-----------------------------------------------------------------------------
LEMMA QuietOpening ==
  ASSUME TypeOK, QuietUntilSent, NEW e, OpeningStep(e)
  PROVE  QuietUntilSent'
<1>n. PICK n : n = Len(opened)
  OBVIOUS
<1>1. /\ n \in Nat /\ DOMAIN opened = 1..n /\ DOMAIN opened' = 1..(n + 1)
      /\ \A j \in 1..n : opened'[j] = opened[j]
  BY <1>n, OpeningSays
<1>2. UNCHANGED <<killed, cut, wire, term, term0>>
  BY DEF OpeningStep, fixed
<1> QED
  BY <1>1, <1>2 DEF QuietUntilSent

LEMMA QuietMoving ==
  ASSUME TypeOK, QuietUntilSent, NEW i \in 1..Len(opened), NEW st,
         Moves(i, st, opened[i].sent), UNCHANGED fixed, UNCHANGED term,
         opened[i].sent \/ cut' \/ (wire' = wire /\ (cut => cut'))
  PROVE  QuietUntilSent'
<1>n. PICK n : n = Len(opened)
  OBVIOUS
<1>1. /\ n \in Nat /\ DOMAIN opened = 1..n /\ DOMAIN opened' = 1..n
      /\ \A j \in 1..n : j # i => opened'[j] = opened[j]
      /\ opened'[i].sent = opened[i].sent
  BY <1>n, MovingSays
<1>2. \A j \in 1..n : opened'[j].sent = opened[j].sent
  BY <1>1
<1>3. UNCHANGED <<killed, term, term0>>
  BY DEF fixed
<1> QED
  BY <1>1, <1>2, <1>3, <1>n DEF QuietUntilSent

-----------------------------------------------------------------------------
\* c entries of flags.
Pushes(c) == [k \in 1..c |-> "15"]

LEMMA PushAndPop ==
  ASSUME NEW s \in Seq({"5", "15"}), NEW c \in Nat
  PROVE  /\ s \o Pushes(0) = s
         /\ s \o Pushes(c) \in Seq({"5", "15"})
         /\ Append(s \o Pushes(c), "15") = s \o Pushes(c + 1)
         /\ s \o Pushes(c + 1) # <<>>
         /\ Front(s \o Pushes(c + 1)) = s \o Pushes(c)
<1>1. \A d \in Nat : Pushes(d) \in Seq({"5", "15"}) /\ Len(Pushes(d)) = d
                     /\ \A k \in 1..d : Pushes(d)[k] = "15"
  BY DEF Pushes
<1>2. Pushes(0) = <<>>
  BY <1>1, EmptySeq
<1>3. s \o Pushes(0) = s
  BY <1>2, ConcatEmptySeq
<1>4. c + 1 \in Nat
  OBVIOUS
<1> DEFINE l == s \o Pushes(c)
           m == s \o Pushes(c + 1)
<1>5. /\ Len(s) \in Nat /\ l \in Seq({"5", "15"}) /\ Len(l) = Len(s) + c
      /\ \A i \in 1..(Len(s) + c) : l[i] = IF i <= Len(s) THEN s[i] ELSE "15"
  <2>1. /\ l \in Seq({"5", "15"}) /\ Len(l) = Len(s) + Len(Pushes(c))
        /\ \A i \in 1..(Len(s) + Len(Pushes(c))) :
             l[i] = IF i <= Len(s) THEN s[i] ELSE Pushes(c)[i - Len(s)]
    BY <1>1, ConcatProperties
  <2>2. Len(s) \in Nat
    BY LenProperties
  <2>3. \A i \in 1..(Len(s) + c) : ~(i <= Len(s)) => i - Len(s) \in 1..c
    BY <2>2
  <2> HIDE DEF l
  <2> QED
    BY <1>1, <2>1, <2>2, <2>3
<1>6. /\ m \in Seq({"5", "15"}) /\ Len(m) = Len(s) + (c + 1)
      /\ \A i \in 1..(Len(s) + (c + 1)) : m[i] = IF i <= Len(s) THEN s[i] ELSE "15"
  <2>1. /\ m \in Seq({"5", "15"}) /\ Len(m) = Len(s) + Len(Pushes(c + 1))
        /\ \A i \in 1..(Len(s) + Len(Pushes(c + 1))) :
             m[i] = IF i <= Len(s) THEN s[i] ELSE Pushes(c + 1)[i - Len(s)]
    BY <1>1, <1>4, ConcatProperties
  <2>2. Len(s) \in Nat
    BY LenProperties
  <2>3. \A i \in 1..(Len(s) + (c + 1)) : ~(i <= Len(s)) => i - Len(s) \in 1..(c + 1)
    BY <2>2
  <2> HIDE DEF m
  <2> QED
    BY <1>1, <1>4, <2>1, <2>2, <2>3
<1> HIDE DEF l, m
<1>7. Append(l, "15") = m
  <2>1. /\ Append(l, "15") \in Seq({"5", "15"}) /\ Len(Append(l, "15")) = Len(l) + 1
        /\ \A i \in 1..Len(l) : Append(l, "15")[i] = l[i]
        /\ Append(l, "15")[Len(l) + 1] = "15"
    BY <1>5
  <2>2. Len(Append(l, "15")) = Len(m)
    BY <2>1, <1>5, <1>6
  <2>3. \A i \in 1..Len(Append(l, "15")) : Append(l, "15")[i] = m[i]
    <3> TAKE i \in 1..Len(Append(l, "15"))
    <3>1. i \in 1..(Len(s) + (c + 1)) /\ Len(l) = Len(s) + c
      BY <2>1, <1>5
    <3>2. CASE i \in 1..Len(l)
      BY <3>1, <3>2, <2>1, <1>5, <1>6
    <3>3. CASE i = Len(l) + 1
      <4>1. m[i] = "15"
        BY <3>1, <3>3, <1>5, <1>6
      <4> QED
        BY <4>1, <3>3, <2>1
    <3> QED
      BY <3>1, <3>2, <3>3, <1>5
  <2> QED
    BY <2>1, <2>2, <2>3, <1>6, SeqEqual
<1>8. m # <<>>
  BY <1>5, <1>6, EmptySeq
<1>9. Front(m) = l
  <2>1. /\ Front(m) \in Seq({"5", "15"}) /\ Len(Front(m)) = Len(m) - 1
        /\ \A i \in 1..(Len(m) - 1) : Front(m)[i] = m[i]
    BY <1>6, <1>8, FrontOfKitty
  <2>2. Len(m) - 1 = Len(s) + c
    BY <1>5, <1>6
  <2>3. \A i \in 1..(Len(s) + c) : Front(m)[i] = l[i]
    BY <2>1, <2>2, <1>5, <1>6
  <2> QED
    BY <2>1, <2>2, <2>3, <1>5, SeqEqual
<1> QED
  BY <1>3, <1>5, <1>7, <1>8, <1>9 DEF l, m

LEMMA SettledTyped ==
  ASSUME TypeOK
  PROVE  Settled \in Terminal /\ Settled.modes \subseteq Modes /\ Settled.kitty \in Seq({"5", "15"})
<1>1. Settled \in Terminal
  BY SettleTyped DEF Settled, TypeOK
<1> QED
  BY <1>1 DEF Terminal

LEMMA KittyFinite ==
  ASSUME TypeOK
  PROVE  IsFiniteSet(KittyOn) /\ Cardinality(KittyOn) \in Nat
<1>1. Len(opened) \in Nat /\ KittyOn \subseteq 1..Len(opened)
  BY OpenedTyped DEF KittyOn, Active, Sent
<1>2. IsFiniteSet(1..Len(opened))
  BY <1>1, FS_Interval
<1> QED
  BY <1>1, <1>2, FS_Subset, FS_CardinalityType

\* Nothing that counts has changed.
LEMMA AccountedSame ==
  ASSUME TypeOK, TerminalAccounted, ~cut' => ~cut /\ Settled' = Settled, term0' = term0,
         Sent' = Sent, Active' = Active,
         \A i \in Sent : opened'[i].mask = opened[i].mask
  PROVE  TerminalAccounted'
<1>1. Active \subseteq Sent
  BY DEF Active
<1>2. KittyOn' = KittyOn
  BY <1>1 DEF KittyOn
<1>3. Asked' = Asked
  BY DEF Asked
<1>4. Held' = Held
  BY <1>1 DEF Held
<1> QED
  BY <1>2, <1>3, <1>4 DEF TerminalAccounted
LEMMA AccountedOpening ==
  ASSUME TypeOK, TerminalAccounted, NEW e, OpeningStep(e)
  PROVE  TerminalAccounted'
<1>n. PICK n : n = Len(opened)
  OBVIOUS
<1>1. /\ n \in Nat /\ DOMAIN opened = 1..n /\ DOMAIN opened' = 1..(n + 1)
      /\ \A j \in 1..n : opened'[j] = opened[j]
      /\ opened'[n + 1] = e
  BY <1>n, OpeningSays
<1>2. UNCHANGED <<term, wire, cut, term0>> /\ ~e.sent
  BY DEF OpeningStep, fixed
<1>3. \A j \in 1..(n + 1) : j = n + 1 \/ j \in 1..n
  BY <1>1
<1>4. Sent' = Sent
  BY <1>1, <1>2, <1>3 DEF Sent
<1>5. \A j \in Sent : opened'[j] = opened[j]
  BY <1>1 DEF Sent
<1>6. Active' = Active
  BY <1>4, <1>5 DEF Active
<1>7. Settled' = Settled
  BY <1>2 DEF Settled
<1> QED
  BY <1>2, <1>4, <1>5, <1>6, <1>7, AccountedSame

\* Which sessions count, when one of them moves.
LEMMA CountedMoving ==
  ASSUME TypeOK, NEW i \in 1..Len(opened), NEW st, NEW sent, Moves(i, st, sent), UNCHANGED fixed
  PROVE  /\ \A j : j \in Sent' <=> IF j = i THEN sent ELSE j \in Sent
         /\ \A j : j \in Active' <=> IF j = i THEN sent /\ st = "open" ELSE j \in Active
         /\ \A j \in 1..Len(opened) : opened'[j].mask = opened[j].mask
         /\ \A j : j \in Sent => j \in 1..Len(opened)
         /\ \A j : j \in Sent' => j \in 1..Len(opened)
<1>n. PICK n : n = Len(opened)
  OBVIOUS
<1>1. /\ n \in Nat /\ DOMAIN opened = 1..n /\ DOMAIN opened' = 1..n
      /\ \A j \in 1..n : /\ opened'[j].mask = opened[j].mask
                         /\ j # i => opened'[j] = opened[j]
      /\ opened'[i].sent = sent /\ opened'[i].state = st
  BY <1>n, MovingSays
<1>2. \A j : j \in Sent' <=> IF j = i THEN sent ELSE j \in Sent
  <2> TAKE j
  <2>1. j \in Sent' <=> j \in 1..n /\ opened'[j].sent
    BY <1>1 DEF Sent
  <2>2. j \in Sent <=> j \in 1..n /\ opened[j].sent
    BY <1>1 DEF Sent
  <2> QED
    BY <1>1, <1>n, <2>1, <2>2
<1>3. \A j : j \in Active' <=> IF j = i THEN sent /\ st = "open" ELSE j \in Active
  <2> TAKE j
  <2>1. j \in Active' <=> j \in Sent' /\ opened'[j].state = "open"
    BY DEF Active
  <2>2. j \in Active <=> j \in Sent /\ opened[j].state = "open"
    BY DEF Active
  <2>3. j \in Sent => j \in 1..n
    BY <1>1 DEF Sent
  <2> QED
    BY <1>1, <1>2, <2>1, <2>2, <2>3
<1> QED
  BY <1>1, <1>2, <1>3, <1>n DEF Sent

\* A step of something that is not, and does not become, active.
LEMMA AccountedMoving ==
  ASSUME TypeOK, TerminalAccounted, NEW i \in 1..Len(opened), NEW st,
         Moves(i, st, opened[i].sent), UNCHANGED fixed,
         opened[i].sent => opened[i].state # "open" /\ st # "open",
         ~cut' => ~cut /\ Settled' = Settled
  PROVE  TerminalAccounted'
<1>1. /\ \A j : j \in Sent' <=> IF j = i THEN opened[i].sent ELSE j \in Sent
      /\ \A j : j \in Active' <=> IF j = i THEN opened[i].sent /\ st = "open" ELSE j \in Active
      /\ \A j \in 1..Len(opened) : opened'[j].mask = opened[j].mask
      /\ \A j : j \in Sent => j \in 1..Len(opened)
  BY CountedMoving
<1>2. i \in Sent <=> opened[i].sent
  BY OpenedTyped DEF Sent
<1>3. i \notin Active
  BY <1>2 DEF Active
<1>4. Sent' = Sent
  BY <1>1, <1>2
<1>5. Active' = Active
  BY <1>1, <1>3
<1>6. term0' = term0
  BY DEF fixed
<1> QED
  BY <1>1, <1>4, <1>5, <1>6, AccountedSame

LEMMA AccountedSend ==
  ASSUME TypeOK, CallsInOrder, SendersAllowed, TerminalAccounted,
         NEW i \in 1..Len(opened), Send(i)
  PROVE  TerminalAccounted'
<1> DEFINE mask == opened[i].mask
<1>0. /\ wire' = wire \o enableSeq(mask) /\ UNCHANGED <<term, cut>> /\ UNCHANGED fixed
      /\ opened[i].state = "raw"
  BY DEF Send
<1>1. Moves(i, "open", TRUE)
  BY HoldingSteps, <1>0 DEF HoldingStep
<1>2. /\ \A j : j \in Sent' <=> IF j = i THEN TRUE ELSE j \in Sent
      /\ \A j : j \in Active' <=> IF j = i THEN TRUE ELSE j \in Active
      /\ \A j \in 1..Len(opened) : opened'[j].mask = opened[j].mask
      /\ \A j : j \in Sent => j \in 1..Len(opened)
  BY <1>0, <1>1, CountedMoving
<1>3. i \notin Sent
  BY <1>0, OpenedTyped DEF Sent, SendersAllowed
<1>4. \A j \in Sent : j # i /\ opened'[j].mask = opened[j].mask
  BY <1>2, <1>3
<1>5. Asked' = Asked \union ModesOf(mask)
  <2>1. Sent' = Sent \union {i} /\ opened'[i].mask = mask
    BY <1>2
  <2> QED
    BY <2>1, <1>4 DEF Asked
<1>6. Held' = Held \union ModesOf(mask)
  <2>1. Active' = Active \union {i} /\ opened'[i].mask = mask
    BY <1>2
  <2>2. \A j \in Active : opened'[j].mask = opened[j].mask
    BY <1>4 DEF Active
  <2> QED
    BY <2>1, <2>2 DEF Held
<1>7. KittyOn' = IF "kitty" \in mask THEN KittyOn \union {i} ELSE KittyOn
  <2>1. Active' = Active \union {i} /\ opened'[i].mask = mask
    BY <1>2
  <2>2. \A j \in Active : opened'[j].mask = opened[j].mask
    BY <1>4 DEF Active
  <2> QED
    BY <2>1, <2>2 DEF KittyOn
<1>8. i \notin KittyOn
  BY <1>3 DEF KittyOn, Active
<1>9. /\ Settled' = Settle(Settled, enableSeq(mask))
      /\ Settled \in Terminal
  <2>1. wire \in Seq(Command) /\ enableSeq(mask) \in Seq(Command)
    BY WhatIsWritten DEF TypeOK
  <2>2. Settle(term, wire \o enableSeq(mask)) = Settle(Settle(term, wire), enableSeq(mask))
    BY <2>1, SettleConcat
  <2> QED
    BY <1>0, <2>2, SettledTyped DEF Settled
<1> HIDE DEF mask
<1>10. /\ Settled'.modes = Settled.modes \union ModesOf(mask)
       /\ Settled'.kitty = IF "kitty" \in mask THEN Append(Settled.kitty, "15") ELSE Settled.kitty
  BY <1>9, Enabled
<1>11. term0' = term0 /\ term0.kitty \in Seq({"5", "15"})
  BY <1>0 DEF fixed, TypeOK, Terminal
<1>12. ASSUME ~cut PROVE Settled'.kitty = term0.kitty \o Pushes(Cardinality(KittyOn'))
  <2>1. Settled.kitty = term0.kitty \o Pushes(Cardinality(KittyOn))
    BY <1>12 DEF TerminalAccounted, Pushes
  <2>2. Cardinality(KittyOn) \in Nat /\ IsFiniteSet(KittyOn)
    BY KittyFinite
  <2>3. CASE "kitty" \in mask
    <3>1. Cardinality(KittyOn') = Cardinality(KittyOn) + 1
      BY <1>7, <1>8, <2>2, <2>3, FS_AddElement
    <3>2. PICK c \in Nat : c = Cardinality(KittyOn)
      BY <2>2
    <3>3. Append(term0.kitty \o Pushes(c), "15") = term0.kitty \o Pushes(c + 1)
      BY <1>11, PushAndPop
    <3> QED
      BY <1>10, <2>1, <2>3, <3>1, <3>2, <3>3
  <2>4. CASE "kitty" \notin mask
    BY <1>7, <1>10, <2>1, <2>4
  <2> QED
    BY <2>3, <2>4
<1>13. ASSUME ~cut
       PROVE  /\ term0.modes \ Asked' \subseteq Settled'.modes
              /\ Settled'.modes \subseteq (term0.modes \ Asked') \union Held'
  BY <1>5, <1>6, <1>10, <1>13 DEF TerminalAccounted
<1> QED
  BY <1>0, <1>11, <1>12, <1>13 DEF TerminalAccounted, Pushes

LEMMA AccountedRestore ==
  ASSUME TypeOK, CallsInOrder, SendersAllowed, TerminalAccounted,
         NEW i \in 1..Len(opened), Restore(i)
  PROVE  TerminalAccounted'
<1> DEFINE mask == opened[i].mask
           seq == IF opened[i].sent THEN disableSeq(mask) ELSE <<>>
<1>0. /\ UNCHANGED term /\ UNCHANGED fixed /\ opened[i].state = "open"
      /\ wire \in Seq(Command)
  BY DEF Restore, TypeOK
<1>1. Moves(i, "restoring", opened[i].sent)
  BY HoldingSteps, <1>0 DEF HoldingStep
<1>s. seq \in Seq(Command) /\ Len(seq) \in Nat
  <2>1. seq \in Seq(Command)
    BY WhatIsWritten, EmptySeq
  <2> HIDE DEF seq
  <2> QED
    BY <2>1, LenProperties
<1>2. SUFFICES ASSUME ~cut' PROVE TerminalAccounted'
  BY DEF TerminalAccounted
<1>3. ~cut /\ wire' = wire \o seq
  <2>1. PICK l \in 0..Len(seq) : wire' = wire \o SubSeq(seq, 1, l) /\ cut' = (cut \/ l < Len(seq))
    BY DEF Restore
  <2>2. ~cut /\ ~(l < Len(seq))
    BY <1>2, <2>1
  <2>3. l = Len(seq)
    BY <1>s, <2>2
  <2> HIDE DEF seq
  <2>4. SubSeq(seq, 1, Len(seq)) = seq
    BY <1>s, SubSeqFull
  <2> QED
    BY <2>1, <2>2, <2>3, <2>4
<1>4. CASE ~opened[i].sent
  <2>1. wire' = wire
    BY <1>0, <1>3, <1>4, ConcatEmptySeq
  <2>2. Settled' = Settled
    BY <2>1, <1>0 DEF Settled
  <2> QED
    BY <1>0, <1>1, <1>3, <1>4, <2>2, AccountedMoving
<1>5. CASE opened[i].sent
  <2>1. wire' = wire \o disableSeq(mask)
    BY <1>3, <1>5
  <2>2. /\ \A j : j \in Sent' <=> IF j = i THEN TRUE ELSE j \in Sent
        /\ \A j : j \in Active' <=> IF j = i THEN FALSE ELSE j \in Active
        /\ \A j \in 1..Len(opened) : opened'[j].mask = opened[j].mask
        /\ \A j : j \in Sent => j \in 1..Len(opened)
    <3>1. /\ \A j : j \in Sent' <=> IF j = i THEN opened[i].sent ELSE j \in Sent
          /\ \A j : j \in Active' <=>
               IF j = i THEN opened[i].sent /\ "restoring" = "open" ELSE j \in Active
          /\ \A j \in 1..Len(opened) : opened'[j].mask = opened[j].mask
          /\ \A j : j \in Sent => j \in 1..Len(opened)
      BY <1>0, <1>1, CountedMoving
    <3> QED
      BY <1>5, <3>1
  <2>3. i \in Sent /\ i \in Active
    BY <1>0, <1>5, OpenedTyped DEF Sent, Active
  <2>4. Sent' = Sent /\ Active' = Active \ {i}
    BY <2>2, <2>3
  <2>5. \A j \in Sent : opened'[j].mask = opened[j].mask
    BY <2>2
  <2>6. Asked' = Asked /\ ModesOf(mask) \subseteq Asked
    BY <2>3, <2>4, <2>5 DEF Asked
  <2>7. Held \subseteq Held' \union ModesOf(mask)
    <3>1. \A j \in Active : j = i \/ (j \in Active' /\ opened'[j].mask = opened[j].mask)
      BY <2>4, <2>5 DEF Active
    <3> QED
      BY <3>1 DEF Held
  <2>8. KittyOn' = KittyOn \ {i} /\ (i \in KittyOn <=> "kitty" \in mask)
    <3>1. \A j \in Active : opened'[j].mask = opened[j].mask
      BY <2>5 DEF Active
    <3> QED
      BY <2>3, <2>4, <3>1 DEF KittyOn
  <2>9. /\ Settled' = Settle(Settled, disableSeq(mask))
        /\ Settled \in Terminal
    <3>1. disableSeq(mask) \in Seq(Command)
      BY WhatIsWritten
    <3>2. Settle(term, wire \o disableSeq(mask)) = Settle(Settle(term, wire), disableSeq(mask))
      BY <1>0, <3>1, SettleConcat
    <3> QED
      BY <1>0, <2>1, <3>2, SettledTyped DEF Settled
  <2> HIDE DEF mask, seq
  <2>10. /\ Settled'.modes = Settled.modes \ ModesOf(mask)
         /\ Settled'.kitty = IF "kitty" \in mask /\ Settled.kitty # <<>>
                             THEN Front(Settled.kitty) ELSE Settled.kitty
    BY <2>9, Disabled
  <2>11. term0' = term0 /\ term0.kitty \in Seq({"5", "15"})
    BY <1>0 DEF fixed, TypeOK, Terminal
  <2>12. Settled'.kitty = term0.kitty \o Pushes(Cardinality(KittyOn'))
    <3>1. Settled.kitty = term0.kitty \o Pushes(Cardinality(KittyOn))
      BY <1>3 DEF TerminalAccounted, Pushes
    <3>2. Cardinality(KittyOn) \in Nat /\ IsFiniteSet(KittyOn) /\ IsFiniteSet(KittyOn \ {i})
          /\ Cardinality(KittyOn \ {i}) \in Nat
      BY KittyFinite, FS_RemoveElement, FS_CardinalityType
    <3>3. CASE "kitty" \in mask
      <4>1. Cardinality(KittyOn) = Cardinality(KittyOn') + 1 /\ Cardinality(KittyOn') \in Nat
        <5>1. Cardinality(KittyOn \ {i}) = Cardinality(KittyOn) - 1
          BY <2>8, <3>2, <3>3, FS_RemoveElement
        <5> QED
          BY <2>8, <3>2, <5>1
      <4>2. PICK c \in Nat : c = Cardinality(KittyOn')
        BY <4>1
      <4>3. Settled.kitty = term0.kitty \o Pushes(c + 1)
        BY <3>1, <4>1, <4>2
      <4>p. /\ term0.kitty \o Pushes(c + 1) # <<>>
            /\ Front(term0.kitty \o Pushes(c + 1)) = term0.kitty \o Pushes(c)
        BY <2>11, PushAndPop
      <4>4. Settled.kitty # <<>> /\ Front(Settled.kitty) = term0.kitty \o Pushes(c)
        BY <4>3, <4>p
      <4> QED
        BY <2>10, <3>3, <4>2, <4>4
    <3>4. CASE "kitty" \notin mask
      <4>1. KittyOn' = KittyOn
        BY <2>8, <3>4
      <4> QED
        BY <2>10, <3>1, <3>4, <4>1
    <3> QED
      BY <3>3, <3>4
  <2>13. /\ term0.modes \ Asked' \subseteq Settled'.modes
         /\ Settled'.modes \subseteq (term0.modes \ Asked') \union Held'
    BY <1>3, <2>6, <2>7, <2>10 DEF TerminalAccounted
  <2> QED
    BY <2>11, <2>12, <2>13 DEF TerminalAccounted, Pushes
<1> QED
  BY <1>4, <1>5
-----------------------------------------------------------------------------
LEMMA PrefixTyped ==
  ASSUME NEW w \in Seq(Command), NEW s \in Seq(Command), NEW l \in 0..Len(s)
  PROVE  w \o SubSeq(s, 1, l) \in Seq(Command)
<1>1. Len(s) \in Nat /\ \A i \in 1..Len(s) : s[i] \in Command
  BY CommandsTyped
<1>2. l \in Int /\ \A i \in 1..l : s[i] \in Command
  BY <1>1
<1>3. SubSeq(s, 1, l) \in Seq(Command)
  BY <1>2, SubSeqProperties
<1> QED
  BY <1>3, ConcatProperties

LEMMA TypeOpening ==
  ASSUME TypeOK, NEW e, OpeningStep(e)
  PROVE  TypeOK'
<1>1. line' \subseteq Flags
  BY DEF TypeOK, OpeningStep, Raw, ConsoleMode, Flags
<1>2. /\ UNCHANGED <<os, InputMode, line0, term0, killed, term, wire, cut>>
      /\ opened' \in Seq(Opened) /\ Len(opened') = Len(opened) + 1
      /\ Len(opened) + killed < MaxOpened
  BY DEF OpeningStep, Opens, fixed
<1>3. Len(opened) \in Nat /\ killed \in Nat /\ MaxOpened \in Nat
  BY OpenedTyped, ModesAssumption DEF TypeOK
<1>4. Len(opened') + killed' <= MaxOpened
  BY <1>2, <1>3
<1> QED
  BY <1>1, <1>2, <1>4 DEF TypeOK

LEMMA TypeMoving ==
  ASSUME TypeOK, NEW i \in 1..Len(opened), NEW st, NEW sent, Moves(i, st, sent),
         UNCHANGED fixed, UNCHANGED term, line' \subseteq Flags, wire' \in Seq(Command),
         cut' \in BOOLEAN
  PROVE  TypeOK'
BY DEF TypeOK, Moves, fixed

\* The invariant for what is opened, ...
LEMMA InvOpening ==
  ASSUME ModesInv, NEW e, OpeningStep(e)
  PROVE  ModesInv'
BY TypeOpening, CallsInOrderOpening, FirstFoundLine0Opening, RawWhileHeldOpening,
   NoVTOnTopOpening, SendersAllowedOpening, QuietOpening, AccountedOpening
   DEF ModesInv

\* ... for what goes on, ...
LEMMA InvSuppress ==
  ASSUME ModesInv, NEW i \in 1..Len(opened), Suppress(i)
  PROVE  ModesInv'
<1>1. /\ HoldingStep(i, opened[i].sent) /\ UNCHANGED <<fixed, line, term, wire, cut>>
      /\ opened[i].state = "raw"
  BY HoldingSteps DEF ModesInv, Suppress
<1>2. Moves(i, "open", opened[i].sent)
  BY <1>1 DEF HoldingStep
<1>3. ~opened[i].sent
  BY <1>1, OpenedTyped DEF ModesInv, SendersAllowed
<1>4. TypeOK'
  BY <1>1, <1>2, TypeMoving DEF ModesInv, TypeOK
<1>5. SendersAllowed' /\ QuietUntilSent'
  BY <1>1, <1>2, SendersAllowedMoving, QuietMoving DEF ModesInv
<1>6. TerminalAccounted'
  <2>1. Settled' = Settled
    BY <1>1 DEF Settled
  <2> QED
    BY <1>1, <1>2, <1>3, <2>1, AccountedMoving DEF ModesInv
<1> QED
  BY <1>1, <1>4, <1>5, <1>6, CallsInOrderHolding, FirstFoundLine0Holding, RawWhileHeldHolding,
     NoVTOnTopHolding DEF ModesInv

LEMMA InvSend ==
  ASSUME ModesInv, NEW i \in 1..Len(opened), Send(i)
  PROVE  ModesInv'
<1>1. /\ HoldingStep(i, TRUE) /\ UNCHANGED <<fixed, line, term, cut>>
      /\ opened[i].state = "raw" /\ ~Suppressed /\ wire' = wire \o enableSeq(opened[i].mask)
      /\ opened[i].kind = "session"
  BY HoldingSteps DEF ModesInv, Send, HoldingStep
<1>2. Moves(i, "open", TRUE)
  BY <1>1 DEF HoldingStep
<1>3. wire' \in Seq(Command)
  BY <1>1, WhatIsWritten, ConcatProperties DEF ModesInv, TypeOK
<1>4. TypeOK'
  BY <1>1, <1>2, <1>3, TypeMoving DEF ModesInv, TypeOK
<1>5. SendersAllowed'
  BY <1>1, <1>2, SendersAllowedMoving DEF ModesInv
<1>6. QuietUntilSent'
  <2>1. opened'[i].sent /\ i \in DOMAIN opened'
    BY <1>1, <1>2, MovingSays DEF ModesInv
  <2> QED
    BY <2>1 DEF QuietUntilSent
<1>7. TerminalAccounted'
  BY AccountedSend DEF ModesInv
<1> QED
  BY <1>1, <1>4, <1>5, <1>6, <1>7, CallsInOrderHolding, FirstFoundLine0Holding,
     RawWhileHeldHolding, NoVTOnTopHolding DEF ModesInv

LEMMA InvRestore ==
  ASSUME ModesInv, NEW i \in 1..Len(opened), Restore(i)
  PROVE  ModesInv'
<1> DEFINE seq == IF opened[i].sent THEN disableSeq(opened[i].mask) ELSE <<>>
<1>1. /\ HoldingStep(i, opened[i].sent) /\ UNCHANGED <<fixed, line, term>>
      /\ opened[i].state = "open" /\ opened[i].kind = "session"
  BY HoldingSteps DEF ModesInv, Restore
<1>2. Moves(i, "restoring", opened[i].sent)
  BY <1>1 DEF HoldingStep
<1>3. PICK l \in 0..Len(seq) : wire' = wire \o SubSeq(seq, 1, l) /\ cut' = (cut \/ l < Len(seq))
  BY DEF Restore
<1>s. seq \in Seq(Command) /\ wire \in Seq(Command)
  BY WhatIsWritten, EmptySeq DEF ModesInv, TypeOK
<1>4. wire' \in Seq(Command) /\ cut' \in BOOLEAN
  <2> HIDE DEF seq
  <2>1. wire' \in Seq(Command)
    BY <1>3, <1>s, PrefixTyped
  <2>2. cut' \in BOOLEAN
    BY <1>3
  <2> QED
    BY <2>1, <2>2
<1>5. TypeOK'
  BY <1>1, <1>2, <1>4, TypeMoving DEF ModesInv, TypeOK
<1>6. SendersAllowed'
  BY <1>1, <1>2, SendersAllowedMoving DEF ModesInv
<1>7. QuietUntilSent'
  <2>1. CASE opened[i].sent
    BY <1>1, <1>2, <2>1, QuietMoving DEF ModesInv
  <2>2. CASE ~opened[i].sent
    <3>1. seq = <<>> /\ Len(seq) = 0
      BY <2>2
    <3>2. l = 0
      BY <3>1
    <3>3. SubSeq(seq, 1, l) = <<>>
      BY <3>2, SubSeqEmpty
    <3>4. wire' = wire /\ (cut => cut')
      BY <1>3, <1>s, <3>3, ConcatEmptySeq
    <3> QED
      BY <1>1, <1>2, <3>4, QuietMoving DEF ModesInv
  <2> QED
    BY <2>1, <2>2
<1>8. TerminalAccounted'
  BY AccountedRestore DEF ModesInv
<1> QED
  BY <1>1, <1>5, <1>6, <1>7, <1>8, CallsInOrderHolding, FirstFoundLine0Holding,
     RawWhileHeldHolding, NoVTOnTopHolding DEF ModesInv

\* ... for what is closed, ...
LEMMA InvClosing ==
  ASSUME ModesInv, NEW i \in 1..Len(opened), SendFails(i) \/ Close(i) \/ RestoreLine(i)
  PROVE  ModesInv'
<1>1. ClosingStep(i)
  BY ClosingSteps DEF ModesInv
<1>2. Moves(i, "closed", opened[i].sent) /\ UNCHANGED <<fixed, term>>
  BY <1>1 DEF ClosingStep
<1>3. \/ cut' = TRUE /\ wire' \in Seq(Command)
      \/ UNCHANGED <<cut, wire>>
  <2>1. CASE SendFails(i)
    <3> DEFINE seq == enableSeq(opened[i].mask)
    <3>1. PICK l \in 0..(Len(seq) - 1) : wire' = wire \o SubSeq(seq, 1, l)
      BY <2>1 DEF SendFails
    <3>2. seq \in Seq(Command) /\ wire \in Seq(Command)
      BY WhatIsWritten DEF ModesInv, TypeOK
    <3>3. cut' = TRUE
      BY <2>1 DEF SendFails
    <3> HIDE DEF seq
    <3>4. l \in 0..Len(seq)
      BY <3>2, LenProperties
    <3> QED
      BY <3>1, <3>2, <3>3, <3>4, PrefixTyped
  <2>2. CASE Close(i) \/ RestoreLine(i)
    BY <2>2 DEF Close, RestoreLine
  <2> QED
    BY <2>1, <2>2
<1>4. line' \subseteq Flags
  <2>1. opened[i].saved \subseteq Flags /\ line \subseteq Flags
    BY OpenedTyped DEF ModesInv, TypeOK, Opened
  <2> QED
    BY <1>1, <2>1 DEF ClosingStep
<1>5. TypeOK'
  BY <1>2, <1>3, <1>4, TypeMoving DEF ModesInv, TypeOK
<1>6. SendersAllowed'
  BY <1>2, SendersAllowedMoving DEF ModesInv
<1>q. QuietUntilSent'
  <2>1. cut' \/ (wire' = wire /\ (cut => cut'))
    BY <1>3
  <2> QED
    BY <1>2, <2>1, QuietMoving DEF ModesInv
<1>7. TerminalAccounted'
  <2>1. ~cut' => ~cut /\ Settled' = Settled
    BY <1>2, <1>3 DEF Settled
  <2>2. opened[i].sent => opened[i].state # "open"
    BY <1>1, OpenedTyped DEF ClosingStep, ModesInv, SendersAllowed
  <2> QED
    BY <1>2, <2>1, <2>2, AccountedMoving DEF ModesInv
<1> QED
  BY <1>1, <1>5, <1>6, <1>q, <1>7, CallsInOrderClosing, FirstFoundLine0Closing, RawWhileHeldClosing,
     NoVTOnTopClosing DEF ModesInv

\* ... and for the terminal and a crash.
LEMMA InvProcess ==
  ASSUME ModesInv, Process \/ UNCHANGED vars
  PROVE  ModesInv'
<1>1. /\ UNCHANGED <<os, InputMode, line0, term0, killed, line, opened, cut>>
      /\ \/ wire # <<>> /\ term' = Obey(term, Head(wire)) /\ wire' = Tail(wire)
         \/ UNCHANGED <<term, wire>>
  BY DEF Process, vars, fixed
<1>2. term \in Terminal /\ wire \in Seq(Command)
  BY DEF ModesInv, TypeOK
<1>3. /\ Settled' = Settled /\ term' \in Terminal /\ wire' \in Seq(Command)
  <2>1. CASE wire # <<>> /\ term' = Obey(term, Head(wire)) /\ wire' = Tail(wire)
    <3>1. /\ Head(wire) \in Command /\ Tail(wire) \in Seq(Command)
          /\ Settle(Obey(term, Head(wire)), Tail(wire)) = Settle(term, wire)
      BY <1>2, <2>1, SettleHead
    <3>2. Obey(term, Head(wire)) \in Terminal
      BY <1>2, <3>1, ObeySays
    <3> QED
      BY <2>1, <3>1, <3>2 DEF Settled
  <2>2. CASE UNCHANGED <<term, wire>>
    BY <1>2, <2>2 DEF Settled
  <2> QED
    BY <1>1, <2>1, <2>2
<1>4. TypeOK'
  BY <1>1, <1>3 DEF ModesInv, TypeOK
<1>c. (Console' <=> Console) /\ (Suppressed' <=> Suppressed)
  BY <1>1 DEF Console, Suppressed
<1>5. CallsInOrder' /\ SendersAllowed'
  BY <1>1, <1>c DEF ModesInv, CallsInOrder, InOrder, Saves, SendersAllowed
<1>6. FirstFoundLine0' /\ RawWhileHeld'
  BY <1>1, <1>c DEF ModesInv, FirstFoundLine0, RawWhileHeld, ModeZero, Holds, HoldsRaw, IsRaw, Saves
<1>7. NoVTOnTop'
  BY <1>1, <1>c DEF ModesInv, NoVTOnTop, Topmost, Keyed
<1>8. QuietUntilSent'
  BY <1>1 DEF ModesInv, QuietUntilSent
<1>9. TerminalAccounted'
  <2>1. Sent' = Sent /\ Active' = Active
    BY <1>1 DEF Sent, Active
  <2> QED
    BY <1>1, <1>3, <2>1, AccountedSame DEF ModesInv
<1> QED
  BY <1>4, <1>5, <1>6, <1>7, <1>8, <1>9 DEF ModesInv

\* With nothing open the invariant says little: the line and the terminal
\* are what they were found as.
NothingOpen ==
  /\ TypeOK /\ opened = <<>> /\ line = line0 /\ Settled = term0
  /\ killed = 0 => wire = <<>> /\ term = term0

LEMMA InvNothingOpen == NothingOpen => ModesInv
<1> SUFFICES ASSUME NothingOpen PROVE ModesInv
  OBVIOUS
<1>1. DOMAIN opened = {}
  BY DEF NothingOpen
<1>2. /\ Sent = {} /\ Active = {} /\ KittyOn = {} /\ Asked = {} /\ Held = {}
  BY <1>1 DEF Sent, Active, KittyOn, Asked, Held
<1>3. Cardinality(KittyOn) = 0
  BY <1>2, FS_EmptySet
<1>4. term0.kitty \in Seq({"5", "15"})
  BY DEF NothingOpen, TypeOK, Terminal
<1>5. term0.kitty \o Pushes(0) = term0.kitty
  BY <1>4, PushAndPop
<1>6. TerminalAccounted
  BY <1>2, <1>3, <1>5 DEF TerminalAccounted, Pushes, NothingOpen
<1> QED
  BY <1>1, <1>6 DEF NothingOpen, ModesInv, CallsInOrder, FirstFoundLine0, RawWhileHeld,
     NoVTOnTop, SendersAllowed, QuietUntilSent

LEMMA AfterCrash ==
  ASSUME ModesInv, Crash
  PROVE  NothingOpen'
<1>0. /\ opened # <<>> /\ killed' = killed + Len(opened) /\ opened' = <<>> /\ cut' = FALSE
      /\ line0' = line /\ term0' = Settled /\ UNCHANGED <<os, InputMode, line, term, wire>>
  BY DEF Crash
<1>1. Len(opened) \in Nat \ {0} /\ killed \in Nat /\ Len(opened) + killed <= MaxOpened
      /\ MaxOpened \in Nat
  BY <1>0, EmptySeq, ModesAssumption DEF ModesInv, TypeOK
<1>2. killed' \in Nat /\ killed' # 0 /\ 0 + killed' <= MaxOpened
  BY <1>0, <1>1
<1>3. opened' \in Seq(Opened) /\ Len(opened') = 0
  BY <1>0, EmptySeq
<1>4. TypeOK'
  <2>1. Settled \in Terminal
    BY SettledTyped DEF ModesInv
  <2> QED
    BY <1>0, <1>2, <1>3, <2>1 DEF ModesInv, TypeOK
<1>5. line' = line0' /\ Settled' = term0'
  BY <1>0 DEF Settled
<1> QED
  BY <1>0, <1>2, <1>4, <1>5 DEF NothingOpen

LEMMA InitInv == Init => ModesInv
<1> SUFFICES ASSUME Init PROVE ModesInv
  OBVIOUS
<1>1. opened = <<>> /\ wire = <<>> /\ term0 = term /\ line0 = line /\ killed = 0
  BY DEF Init
<1>2. TypeOK
  <2>1. opened \in Seq(Opened) /\ wire \in Seq(Command) /\ Len(opened) = 0
    BY <1>1, EmptySeq
  <2>2. MaxOpened \in Nat /\ term \in Terminal /\ line \subseteq Flags
    BY ModesAssumption DEF Init
  <2>3. killed \in Nat /\ Len(opened) + killed <= MaxOpened
    BY <1>1, <2>1, <2>2
  <2>4. cut \in BOOLEAN /\ os \in Systems /\ InputMode \in InputModes
    BY DEF Init
  <2> QED
    BY <1>1, <2>1, <2>2, <2>3, <2>4 DEF TypeOK
<1>3. term \in Terminal
  BY <1>2 DEF TypeOK
<1>4. Settled = term0
  BY <1>1, <1>3, SettleNothing DEF Settled
<1> QED
  BY <1>1, <1>2, <1>4, InvNothingOpen DEF NothingOpen

LEMMA StepInv == ModesInv /\ ~Crash /\ [Next]_vars => ModesInv'
<1> SUFFICES ASSUME ModesInv, ~Crash, [Next]_vars PROVE ModesInv'
  OBVIOUS
<1>1. TypeOK /\ DOMAIN opened = 1..Len(opened)
  BY OpenedTyped DEF ModesInv
<1>2. CASE \/ NewReader \/ NewReaderUnset
           \/ \E mask \in Masks : MakeRaw(mask) \/ MakeRawFails(mask)
  BY <1>1, <1>2, OpeningSteps, InvOpening
<1>3. CASE \E i \in DOMAIN opened :
             Suppress(i) \/ Send(i) \/ SendFails(i) \/ Close(i) \/ Restore(i) \/ RestoreLine(i)
  <2>1. PICK i \in 1..Len(opened) :
             Suppress(i) \/ Send(i) \/ SendFails(i) \/ Close(i) \/ Restore(i) \/ RestoreLine(i)
    BY <1>1, <1>3
  <2>2. CASE Suppress(i)
    BY <2>2, InvSuppress
  <2>3. CASE Send(i)
    BY <2>3, InvSend
  <2>4. CASE Restore(i)
    BY <2>4, InvRestore
  <2>5. CASE SendFails(i) \/ Close(i) \/ RestoreLine(i)
    BY <2>5, InvClosing
  <2> QED
    BY <2>1, <2>2, <2>3, <2>4, <2>5
<1>4. CASE Process \/ UNCHANGED vars
  BY <1>4, InvProcess
<1> QED
  BY <1>2, <1>3, <1>4 DEF Next

LEMMA CrashInv == ModesInv /\ Crash => ModesInv'
<1>1. ModesInv /\ Crash => NothingOpen'
  BY AfterCrash
<1>2. (NothingOpen => ModesInv)'
  BY InvNothingOpen, PTL
<1> QED
  BY <1>1, <1>2

LEMMA Invariance == Spec => []ModesInv
BY InitInv, StepInv, CrashInv, PTL DEF Spec
-----------------------------------------------------------------------------
(***************************************************************************)
(* What follows, for any number of sessions and readers, any masks and any *)
(* line and terminal that the first program may find.                      *)
(***************************************************************************)
LEMMA LineFollows == ModesInv => LineRestored
<1> SUFFICES ASSUME ModesInv, AllClosed PROVE ModeZero \/ line = line0
  BY DEF LineRestored, ModeZero
<1>1. \A i \in DOMAIN opened : ~Holds(i)
  BY DEF AllClosed, Holds
<1> QED
  BY <1>1 DEF ModesInv, FirstFoundLine0

LEMMA TerminalFollows == ModesInv => TerminalRestored
<1> SUFFICES ASSUME ModesInv, AllClosed, ~cut
             PROVE  /\ Settled.kitty = term0.kitty
                    /\ Settled.modes = term0.modes \ Asked
  BY DEF TerminalRestored, Asked, Sent
<1>1. Active = {} /\ KittyOn = {} /\ Held = {}
  BY DEF AllClosed, Active, Sent, KittyOn, Held
<1>2. Cardinality(KittyOn) = 0
  BY <1>1, FS_EmptySet
<1>3. term0.kitty \in Seq({"5", "15"})
  BY DEF ModesInv, TypeOK, Terminal
<1>4. term0.kitty \o Pushes(0) = term0.kitty
  BY <1>3, PushAndPop
<1> QED
  BY <1>1, <1>2, <1>4 DEF ModesInv, TerminalAccounted, Pushes

LEMMA RawFollows == ModesInv => StaysRaw
BY DEF ModesInv, RawWhileHeld, StaysRaw, Holds, HoldsRaw, IsRaw

LEMMA ReportsFollow == ModesInv => ReportsMeetRaw
<1> SUFFICES ASSUME ModesInv, killed = 0, ~cut, ~Ended, term.modes \ term0.modes # {}
             PROVE  line \intersect {"line", "echo"} = {}
  BY DEF ReportsMeetRaw
<1>1. PICK i \in DOMAIN opened : opened[i].sent
  BY DEF ModesInv, QuietUntilSent
<1>2. opened[i].state = "open" /\ opened[i].kind = "session"
  BY <1>1 DEF Ended, ModesInv, SendersAllowed
<1>3. HoldsRaw(i)
  BY <1>2 DEF HoldsRaw, Holds, Saves
<1> QED
  BY <1>3 DEF ModesInv, RawWhileHeld, IsRaw

LEMMA KeysFollow == ModesInv => ConsoleGetsKeys
BY DEF ModesInv, NoVTOnTop, ConsoleGetsKeys, Keyed

\* What every program finds and leaves is a line, a terminal and a list of
\* sessions and readers; it opens no more than the bound allows.
THEOREM TypeCorrect == Spec => []TypeOK
BY Invariance, PTL DEF ModesInv

\* However sessions and readers nest, and whichever of their writes fail,
\* when all are closed the line is in the mode in which the first found it:
\* term.Restore and Close put back what they saved, in the order of a stack.
THEOREM LineIsRestored == Spec => []LineRestored
BY Invariance, LineFollows, PTL

\* However sessions nest, what the restore functions write undoes all that
\* enableSeq did, also to the stack of kitty flags, whatever masks they had
\* and whatever the terminal has seen so far.
THEOREM TerminalIsRestored == Spec => []TerminalRestored
BY Invariance, TerminalFollows, PTL

\* While a session is open the line is raw, whatever else opens, fails to
\* open or closes in the meantime.
THEOREM SessionStaysRaw == Spec => []StaysRaw
BY Invariance, RawFollows, PTL

\* A terminal sends no report to a line that echoes, until a session ends.
THEOREM ReportsMeetRawLine == Spec => []ReportsMeetRaw
BY Invariance, ReportsFollow, PTL

\* The console reader that was opened last gets keys: the translation to
\* escape sequences is off, also when a session inside it has come and gone.
THEOREM ConsoleReaderGetsKeys == Spec => []ConsoleGetsKeys
BY Invariance, KeysFollow, PTL
=============================================================================
