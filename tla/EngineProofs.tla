---------------------------- MODULE EngineProofs ----------------------------
(***************************************************************************)
(* What holds of the engine and of both its ends for any number of calls   *)
(* and workers, any budgets, and any answers of the provider, however long *)
(* and however cut into deltas.  First what a fold of the community        *)
(* modules computes; then, per operation, that one call stays sound; then  *)
(* that each action keeps the invariant of all; last the theorems.         *)
(***************************************************************************)
EXTENDS Engine, FiniteSetTheorems, WellFoundedInduction, TLAPS

USE EngineAssumption

----------------------------------------------------------------------------
(* Induction.  A set of natural numbers has a least element, and so a set  *)
(* that holds 0 and with each number its successor holds them all.         *)

LEMMA LeastOfASet ==
  ASSUME NEW T \in SUBSET Nat, T # {}
  PROVE  \E m \in T : \A n \in T : m <= n
<1> DEFINE R == {ss \in Nat \X Nat : ss[1] < ss[2]}
<1>1. IsWellFoundedOn(R, Nat)
  BY NatLessThanWellFounded DEF OpToRel
<1> HIDE DEF R
<1>2. PICK m \in T : \A n \in T : ~(<<n, m>> \in R)
  BY <1>1, WFMin
<1>3. \A n \in T : ~(n < m)
  BY <1>2 DEF R
<1>4. QED
  BY <1>3

LEMMA InductionOverASet ==
  ASSUME NEW S, 0 \in S, \A n \in Nat : n \in S => n + 1 \in S
  PROVE  Nat \subseteq S
<1> SUFFICES ASSUME Nat \ S # {} PROVE FALSE
  OBVIOUS
<1>1. PICK m \in Nat \ S : \A n \in Nat \ S : m <= n
  BY LeastOfASet
<1>2. m # 0 /\ m - 1 \in Nat /\ m - 1 \in S
  BY <1>1
<1>3. m - 1 + 1 \in S
  BY <1>2
<1>4. QED
  BY <1>1, <1>3

----------------------------------------------------------------------------
(* FlattenSeq, of sequences of sequences of words.  Joined says that f[i]  *)
(* is the concatenation of the first i of s, as far as n.                  *)

Joined(f, s, n) ==
  \A i \in 1..n : f[i] = IF i = 1 THEN s[i] ELSE f[i - 1] \o s[i]

LEMMA JoinedExists ==
  ASSUME NEW W, NEW s \in Seq(Seq(W))
  PROVE  \E f \in [1..Len(s) -> Seq(W)] : Joined(f, s, Len(s))
<1> DEFINE S == {n \in Nat : n <= Len(s) => \E f \in [1..n -> Seq(W)] : Joined(f, s, n)}
<1>1. 0 \in S
  <2>1. [i \in 1..0 |-> << >>] \in [1..0 -> Seq(W)]
    OBVIOUS
  <2>2. Joined([i \in 1..0 |-> << >>], s, 0)
    BY DEF Joined
  <2>3. QED
    BY <2>1, <2>2
<1>2. ASSUME NEW n \in Nat, n \in S  PROVE n + 1 \in S
  <2>1. SUFFICES ASSUME n + 1 <= Len(s)
                 PROVE  \E f \in [1..(n + 1) -> Seq(W)] : Joined(f, s, n + 1)
    OBVIOUS
  <2>2. PICK f \in [1..n -> Seq(W)] : Joined(f, s, n)
    BY <1>2, <2>1
  <2>3. s[n + 1] \in Seq(W)
    BY <2>1
  <2> DEFINE last == IF n = 0 THEN s[n + 1] ELSE f[n] \o s[n + 1]
             g == [i \in 1..(n + 1) |-> IF i = n + 1 THEN last ELSE f[i]]
  <2>4. last \in Seq(W)
    <3>1. CASE n = 0
      BY <2>3, <3>1
    <3>2. CASE n # 0
      <4>1. f[n] \in Seq(W)
        BY <3>2
      <4>2. QED
        BY <2>3, <3>2, <4>1
    <3>3. QED
      BY <3>1, <3>2
  <2>5. g \in [1..(n + 1) -> Seq(W)]
    <3> HIDE DEF last
    <3>1. \A i \in 1..(n + 1) : i # n + 1 => i \in 1..n
      OBVIOUS
    <3>2. QED
      BY <2>4, <3>1
  <2>6. Joined(g, s, n + 1)
    <3> SUFFICES ASSUME NEW i \in 1..(n + 1)
                 PROVE  g[i] = IF i = 1 THEN s[i] ELSE g[i - 1] \o s[i]
      BY DEF Joined
    <3>1. CASE i = n + 1
      BY <3>1
    <3>2. CASE i # n + 1
      <4>1. i \in 1..n /\ g[i] = f[i] /\ (i # 1 => g[i - 1] = f[i - 1])
        BY <3>2
      <4>2. QED
        BY <2>2, <4>1 DEF Joined
    <3>3. QED
      BY <3>1, <3>2
  <2>7. QED
    BY <2>5, <2>6
<1> HIDE DEF S
<1>3. Len(s) \in S
  BY <1>1, <1>2, InductionOverASet, SMTT(30)
<1>4. QED
  BY <1>3 DEF S

LEMMA JoinedIsUnique ==
  ASSUME NEW W, NEW s \in Seq(Seq(W)), NEW f, NEW g,
         Joined(f, s, Len(s)), Joined(g, s, Len(s))
  PROVE  f[Len(s)] = g[Len(s)] \/ Len(s) = 0
<1> DEFINE S == {i \in Nat : i \in 1..Len(s) => f[i] = g[i]}
<1>1. 0 \in S
  OBVIOUS
<1>2. ASSUME NEW i \in Nat, i \in S  PROVE i + 1 \in S
  <2>1. SUFFICES ASSUME i + 1 \in 1..Len(s)  PROVE f[i + 1] = g[i + 1]
    OBVIOUS
  <2>2. /\ f[i + 1] = IF i + 1 = 1 THEN s[i + 1] ELSE f[(i + 1) - 1] \o s[i + 1]
        /\ g[i + 1] = IF i + 1 = 1 THEN s[i + 1] ELSE g[(i + 1) - 1] \o s[i + 1]
    BY <2>1, Zenon DEF Joined
  <2>3. i + 1 # 1 => f[i] = g[i] /\ (i + 1) - 1 = i
    BY <1>2, <2>1
  <2>4. QED
    BY <2>2, <2>3, Zenon
<1> HIDE DEF S
<1>3. Nat \subseteq S
  BY <1>1, <1>2, InductionOverASet
<1>4. Len(s) \in S
  BY <1>3
<1>5. QED
  BY <1>4 DEF S

LEMMA FlattenIsTheLast ==
  ASSUME NEW W, NEW s \in Seq(Seq(W)), Len(s) # 0,
         NEW f, Joined(f, s, Len(s))
  PROVE  FlattenSeq(s) = f[Len(s)]
<1>1. PICK h \in [1..Len(s) -> Seq(W)] : Joined(h, s, Len(s))
  BY JoinedExists
<1>2. h = [i \in 1..Len(s) |-> IF i = 1 THEN s[i] ELSE h[i - 1] \o s[i]]
  BY <1>1 DEF Joined
<1>3. PICK g : /\ g = [i \in 1..Len(s) |-> IF i = 1 THEN s[i] ELSE g[i - 1] \o s[i]]
               /\ FlattenSeq(s) = g[Len(s)]
  BY <1>2, Zenon DEF FlattenSeq
<1>4. Joined(g, s, Len(s))
  <2> SUFFICES ASSUME NEW i \in 1..Len(s)
               PROVE  g[i] = IF i = 1 THEN s[i] ELSE g[i - 1] \o s[i]
    BY DEF Joined
  <2>1. QED
    BY <1>3, Zenon
<1>5. QED
  BY <1>3, <1>4, JoinedIsUnique

LEMMA FlattenNothing == FlattenSeq(<< >>) = << >>
  BY DEF FlattenSeq

LEMMA FlattenPrefixes ==
  ASSUME NEW W, NEW s \in Seq(Seq(W)), NEW f \in [1..Len(s) -> Seq(W)],
         Joined(f, s, Len(s)), NEW n \in 1..Len(s)
  PROVE  FlattenSeq(SubSeq(s, 1, n)) = f[n]
<1> DEFINE p == SubSeq(s, 1, n)
<1>1. p \in Seq(Seq(W)) /\ Len(p) = n /\ \A i \in 1..n : p[i] = s[i]
  OBVIOUS
<1> HIDE DEF p
<1>2. Joined(f, p, Len(p))
  <2> SUFFICES ASSUME NEW i \in 1..Len(p)
               PROVE  f[i] = IF i = 1 THEN p[i] ELSE f[i - 1] \o p[i]
    BY DEF Joined
  <2>1. i \in 1..Len(s) /\ p[i] = s[i]
    BY <1>1
  <2>2. QED
    <3>1. f[i] = IF i = 1 THEN s[i] ELSE f[i - 1] \o s[i]
      BY <2>1, Zenon DEF Joined
    <3>2. QED
      BY <2>1, <3>1, Zenon
<1>3. FlattenSeq(p) = f[n]
  BY <1>1, <1>2, FlattenIsTheLast
<1>4. QED
  BY <1>3 DEF p

(* One more delta is appended to what the earlier ones make.               *)
LEMMA FlattenOneMore ==
  ASSUME NEW W, NEW s \in Seq(Seq(W)), NEW n \in Nat, n < Len(s)
  PROVE  FlattenSeq(SubSeq(s, 1, n + 1)) = FlattenSeq(SubSeq(s, 1, n)) \o s[n + 1]
<1>1. PICK f \in [1..Len(s) -> Seq(W)] : Joined(f, s, Len(s))
  BY JoinedExists
<1>2. FlattenSeq(SubSeq(s, 1, n + 1)) = f[n + 1]
  BY <1>1, FlattenPrefixes, n + 1 \in 1..Len(s)
<1>3. CASE n = 0
  <2>1. SubSeq(s, 1, n) = << >> /\ s[n + 1] \in Seq(W)
    BY <1>3
  <2>2. f[n + 1] = s[n + 1]
    <3>1. n + 1 \in 1..Len(s) /\ n + 1 = 1
      BY <1>3
    <3>2. f[n + 1] = IF n + 1 = 1 THEN s[n + 1] ELSE f[(n + 1) - 1] \o s[n + 1]
      BY <1>1, <3>1, Zenon DEF Joined
    <3>3. QED
      BY <3>1, <3>2, Zenon
  <2>3. << >> \o s[n + 1] = s[n + 1]
    BY <2>1
  <2>4. QED
    BY <1>2, <2>1, <2>2, <2>3, FlattenNothing
<1>4. CASE n # 0
  <2>1. FlattenSeq(SubSeq(s, 1, n)) = f[n]
    BY <1>1, <1>4, FlattenPrefixes, n \in 1..Len(s)
  <2>2. f[n + 1] = f[(n + 1) - 1] \o s[n + 1]
    <3>1. n + 1 \in 1..Len(s) /\ n + 1 # 1
      BY <1>4
    <3>2. f[n + 1] = IF n + 1 = 1 THEN s[n + 1] ELSE f[(n + 1) - 1] \o s[n + 1]
      BY <1>1, <3>1, Zenon DEF Joined
    <3>3. QED
      BY <3>1, <3>2, Zenon
  <2>3. (n + 1) - 1 = n
    OBVIOUS
  <2>4. QED
    BY <1>2, <2>1, <2>2, <2>3, Zenon
<1>5. QED
  BY <1>3, <1>4

LEMMA FlattenType ==
  ASSUME NEW W, NEW s \in Seq(Seq(W))
  PROVE  FlattenSeq(s) \in Seq(W)
<1>1. CASE Len(s) = 0
  <2>1. s = << >>
    BY <1>1
  <2>2. FlattenSeq(s) = << >>
    BY <2>1, FlattenNothing, Zenon
  <2>3. QED
    BY <2>2
<1>2. CASE Len(s) # 0
  <2>1. PICK f \in [1..Len(s) -> Seq(W)] : Joined(f, s, Len(s))
    BY JoinedExists
  <2>2. FlattenSeq(s) = f[Len(s)]
    BY <1>2, <2>1, FlattenIsTheLast, Zenon
  <2>3. Len(s) \in 1..Len(s)
    BY <1>2
  <2>4. QED
    BY <2>2, <2>3
<1>3. QED
  BY <1>1, <1>2

Begins(a, b) == Len(a) <= Len(b) /\ \A i \in 1..Len(a) : b[i] = a[i]

LEMMA BeginsStill ==
  ASSUME NEW W, NEW a \in Seq(W), NEW b \in Seq(W), NEW c \in Seq(W), Begins(a, b)
  PROVE  Begins(a, b \o c)
<1>1. Len(b \o c) = Len(b) + Len(c) /\ \A i \in 1..Len(b) : (b \o c)[i] = b[i]
  OBVIOUS
<1>2. \A i \in 1..Len(a) : i \in 1..Len(b)
  BY DEF Begins
<1>3. QED
  BY <1>1, <1>2 DEF Begins

(* What the first deltas make is the beginning of the whole.               *)
LEMMA FlattenBegins ==
  ASSUME NEW W, NEW s \in Seq(Seq(W)), NEW n \in 0..Len(s)
  PROVE  Begins(FlattenSeq(SubSeq(s, 1, n)), FlattenSeq(s))
<1> DEFINE F == [k \in 0..Len(s) |-> FlattenSeq(SubSeq(s, 1, k))]
           S == {m \in Nat : m \in n..Len(s) => Begins(F[n], F[m])}
<1>1. F \in [0..Len(s) -> Seq(W)]
  <2> SUFFICES ASSUME NEW k \in 0..Len(s) PROVE FlattenSeq(SubSeq(s, 1, k)) \in Seq(W)
    OBVIOUS
  <2>1. SubSeq(s, 1, k) \in Seq(Seq(W))
    OBVIOUS
  <2>2. QED
    BY <2>1, FlattenType
<1>2. ASSUME NEW k \in Nat, k < Len(s)  PROVE F[k + 1] = F[k] \o s[k + 1]
  <2>1. k + 1 \in 0..Len(s) /\ k \in 0..Len(s)
    BY <1>2
  <2>2. QED
    BY <1>2, <2>1, FlattenOneMore
<1>3. F[Len(s)] = FlattenSeq(s) /\ F[n] = FlattenSeq(SubSeq(s, 1, n))
  <2>1. SubSeq(s, 1, Len(s)) = s /\ Len(s) \in 0..Len(s)
    OBVIOUS
  <2>2. QED
    BY <2>1
<1> HIDE DEF F
<1>4. Begins(F[n], F[n])
  BY <1>1 DEF Begins
<1>5. 0 \in S
  BY <1>4
<1>6. ASSUME NEW m \in Nat, m \in S  PROVE m + 1 \in S
  <2>1. CASE m + 1 \notin n..Len(s) \/ m + 1 = n
    BY <1>4, <2>1
  <2>2. CASE m + 1 \in n..Len(s) /\ m + 1 # n
    <3>1. m \in n..Len(s) /\ m < Len(s)
      BY <2>2
    <3>2. Begins(F[n], F[m])
      BY <1>6, <3>1
    <3>3. F[m + 1] = F[m] \o s[m + 1]
      BY <1>2, <3>1
    <3>4. F[n] \in Seq(W) /\ F[m] \in Seq(W) /\ s[m + 1] \in Seq(W)
      <4>1. m \in 0..Len(s) /\ m + 1 \in 1..Len(s)
        BY <3>1
      <4>2. F[n] \in Seq(W) /\ F[m] \in Seq(W)
        BY <1>1, <4>1
      <4>3. s[m + 1] \in Seq(W)
        BY <4>1
      <4>4. QED
        BY <4>2, <4>3
    <3>5. Begins(F[n], F[m] \o s[m + 1])
      BY <3>2, <3>4, BeginsStill, Zenon
    <3>6. Begins(F[n], F[m + 1])
      BY <3>3, <3>5, Zenon
    <3>7. QED
      BY <3>6
  <2>3. QED
    BY <2>1, <2>2
<1> HIDE DEF S
<1>7. Nat \subseteq S
  BY <1>5, <1>6, InductionOverASet, Zenon
<1>8. Begins(F[n], F[Len(s)])
  BY <1>7 DEF S
<1>9. QED
  BY <1>3, <1>8

----------------------------------------------------------------------------
(* Types.                                                                  *)

Text == Seq(Word)
Place == {"none", "queued", "ready", "connecting", "reading", "drain", "close", "done"}
Asking == {"ready", "connecting", "reading"}  \* stream_chat has not handed over

Status == {"none", "ok", "timeout", "rejected", "unavailable", "unknown", "gone"}
Code == {"none", "engine_timeout", "engine_unavailable", "engine_rejected", "engine_protocol"}
Given == Answers \cup {<< >>}                  \* what a stream may have given

MetaType ==
  [attempts : Nat, usage : {Nobody} \cup Calls, broke : BOOLEAN, regenerations : Nat]

JobType ==
  [at : Place, left : Nat, att : Nat, sock : Nat, limit : Nat, tries : Nat, chats : Nat,
   sent : Nat, mute : BOOLEAN, retried : BOOLEAN, told : BOOLEAN, answer : Given,
   next : Nat, emitted : Nat, broke : BOOLEAN, status : Status, meta : MetaType, alone : BOOLEAN,
   overrun : BOOLEAN]

TurnType ==
  [at : {"idle", "waiting", "answered", "failed"}, rpc : Nat, text : Text,
   final : BOOLEAN, code : Code, meta : MetaType]

EngineType == [regenerate : BOOLEAN, attempts : Nat, usage : {Nobody} \cup Calls]

Typed ==
  /\ engine \in EngineType
  /\ job \in [Calls -> JobType] /\ turn \in [Calls -> TurnType]

----------------------------------------------------------------------------
(* The budgets of a call: what is left of the round, of the attempt and of *)
(* the operation on the socket; and what was sent in it.                   *)

Running(j) == j.at \in Asking \cup {"drain"}

OnTime(r, j) ==
  /\ j.left <= RoundTimeout /\ j.sock <= j.limit
  /\ j.at \in {"connecting", "reading"} => j.att <= j.sock /\ j.att <= j.limit
  /\ j.at \in {"ready", "connecting"} => /\ j.sent <= IF j.retried THEN 1 ELSE 0
                                         /\ j.sent > 0 => j.mute
  /\ j.at = "reading" => j.sent <= IF j.mute THEN 2 ELSE 1
  /\ j.at \notin Asking => j.sent = 0
  /\ Working(j) => j.chats >= 1
  /\ j.at \in {"none", "queued"} => j.chats = 0
  /\ r /\ Running(j) => j.tries >= 1 /\ j.chats + j.tries = MaxAttempts + 1
  /\ MaxAttempts <= 2 /\ r /\ Running(j) /\ ~j.overrun /\ j.tries >= 2 => j.left > j.att

(* What the loop over the deltas has done.                                 *)
Whole(j) == Cut(FlattenSeq(j.answer))
Handled(j) == FlattenSeq(SubSeq(j.answer, 1, j.next))

Counted(r, j) ==
  /\ r \/ j.at # "drain" => j.next = 0 /\ j.emitted = 0
  /\ ~r /\ j.at = "drain" => /\ j.next <= Len(j.answer)
                             /\ j.emitted = Len(Handled(j)) /\ j.emitted <= MaxWords

(* What generate has got of a call that it waits for, and of a past one.   *)
Heard(r, j, t) ==
  /\ t.at = "idle" <=> j.at = "none"
  /\ j.at \in {"none", "queued"} => t.text = << >> /\ ~t.final
  /\ t.at = "waiting" =>
       /\ j.at \in Asking => t.text = << >> /\ ~t.final
       /\ j.at = "drain" => /\ ~t.final
                            /\ t.text = IF r THEN << >> ELSE Handled(j)
       /\ j.at = "close" => ~t.final /\ (j.status = "ok" => t.text = Whole(j))
       /\ j.at = "done" /\ j.status = "ok" => t.final /\ t.text = Whole(j)
  /\ t.at = "answered" =>
       j.at = "done" /\ t.text = Whole(j) /\ t.text # << >> /\ t.final

(* A break of character on its way from the verdict to the metadata.       *)
Marks(broke, regenerations, text) ==
  /\ broke <=> Breaks(text)
  /\ broke => regenerations = MaxAttempts - 1

Marked(r, j, t) ==
  r => /\ j.at = "close" /\ j.status = "ok" => Marks(j.broke, j.chats - 1, Whole(j))
       /\ t.at = "waiting" /\ j.at = "done" /\ j.status = "ok" =>
            Marks(j.meta.broke, j.meta.regenerations, Whole(j))
       /\ t.at = "answered" => Marks(t.meta.broke, t.meta.regenerations, t.text)

(* The shared client, as long as one call alone uses it.                   *)
Tried(j) == IF j.at = "ready" THEN IF j.retried THEN 1 ELSE 0
                              ELSE IF j.retried THEN 2 ELSE 1

Metered(e, j, c) ==
  Working(j) /\ j.alone =>
    /\ e.usage = IF j.told THEN c ELSE Nobody
    /\ j.at # "close" \/ j.status = "ok" => e.attempts = Tried(j)

Alone == \A c \in Calls : Working(job[c]) /\ job[c].alone => Busy \subseteq {c}

CallSound(r, j, t) == OnTime(r, j) /\ Counted(r, j) /\ Heard(r, j, t) /\ Marked(r, j, t)

(* The inductive invariant.                                                *)
EngineSound ==
  /\ Typed /\ Alone
  /\ \A c \in Calls : /\ CallSound(engine.regenerate, job[c], turn[c])
                      /\ Metered(engine, job[c], c)

LEMMA GivenIsText == << >> \in Given /\ Given \subseteq Seq(Text) /\ << >> \in Text
<1>1. << >> \in Given
  BY Zenon DEF Given
<1>2. << >> \in Seq(Text) /\ << >> \in Text
  BY DEF Text
<1>3. Answers \subseteq Seq(Text)
  BY DEF Text
<1>4. QED
  BY <1>1, <1>2, <1>3, Zenon DEF Given

----------------------------------------------------------------------------
(* The loop over stream_chat is left.                                      *)
LEMMA ClosingFields ==
  ASSUME NEW j \in JobType, NEW s \in Status
  PROVE  LET k == Closing(j, s)
         IN /\ k \in JobType
            /\ k.at = "close" /\ k.status = s /\ k.left = 0 /\ k.att = 0 /\ k.sock = 0
            /\ k.limit = 0 /\ k.next = 0 /\ k.emitted = 0 /\ k.sent = 0
            /\ k.tries = j.tries /\ k.chats = j.chats /\ k.retried = j.retried
            /\ k.told = j.told /\ k.answer = j.answer /\ k.broke = j.broke
            /\ k.alone = j.alone
  BY DEF Closing, JobType, Place

LEMMA ClosingIsTimely ==
  ASSUME NEW r \in BOOLEAN, NEW j \in JobType, NEW s \in Status, j.chats >= 1
  PROVE  OnTime(r, Closing(j, s)) /\ Counted(r, Closing(j, s))
<1> DEFINE k == Closing(j, s)
<1>1. /\ k.at = "close" /\ k.left = 0 /\ k.sock = 0 /\ k.limit = 0 /\ k.sent = 0
      /\ k.chats >= 1 /\ k.next = 0 /\ k.emitted = 0
  BY ClosingFields
<1> HIDE DEF k
<1>2. OnTime(r, k)
  BY <1>1 DEF OnTime, Running, Asking
<1>3. Counted(r, k)
  BY <1>1 DEF Counted
<1>4. QED
  BY <1>2, <1>3 DEF k

(* A call that ends without a whole answer.                                *)
LEMMA FailedClosing ==
  ASSUME NEW r \in BOOLEAN, NEW j \in JobType, NEW t \in TurnType, NEW s \in Status,
         s # "ok", CallSound(r, j, t), j.at \in Asking,
         NEW i \in JobType, i.chats = j.chats
  PROVE  Closing(i, s) \in JobType /\ CallSound(r, Closing(i, s), t)
<1> DEFINE k == Closing(i, s)
<1>1. j.chats >= 1
  BY DEF CallSound, OnTime, Working, Asking
<1>2. k \in JobType /\ OnTime(r, k) /\ Counted(r, k) /\ k.at = "close" /\ k.status = s
  BY <1>1, ClosingFields, ClosingIsTimely
<1>3. t.at \notin {"idle", "answered"} /\ (t.at = "waiting" => ~t.final)
  BY DEF CallSound, Heard, Asking
<1> HIDE DEF k
<1>4. Heard(r, k, t)
  BY <1>2, <1>3 DEF Heard, Asking
<1>5. Marked(r, k, t)
  BY <1>2, <1>3 DEF Marked
<1>6. QED
  BY <1>2, <1>4, <1>5 DEF CallSound, k

(* The worker is free again.                                               *)
LEMMA OverFields ==
  ASSUME NEW j \in JobType, NEW s \in Status
  PROVE  LET k == Over(j, s)
         IN /\ k \in JobType
            /\ k.at = "done" /\ k.status = s /\ k.left = 0 /\ k.att = 0 /\ k.sock = 0
            /\ k.limit = 0 /\ k.next = 0 /\ k.emitted = 0 /\ k.sent = 0 /\ k.chats = 0
            /\ k.answer = IF s = "ok" THEN j.answer ELSE << >>
<1>1. NoMeta \in MetaType
  BY DEF NoMeta, MetaType
<1>2. NewJob \in JobType
  <2>1. PICK e \in Given : e = << >>
    BY GivenIsText
  <2> DEFINE m == NoMeta
             i == [at |-> "none", left |-> 0, att |-> 0, sock |-> 0, limit |-> 0,
                   tries |-> 0, chats |-> 0, sent |-> 0, mute |-> FALSE,
                   retried |-> FALSE, told |-> FALSE, answer |-> e, next |-> 0,
                   emitted |-> 0, broke |-> FALSE, status |-> "none",
                   meta |-> m, alone |-> TRUE, overrun |-> FALSE]
  <2>2. m \in MetaType
    BY <1>1
  <2> HIDE DEF m
  <2>3. i \in JobType
    BY <2>2 DEF JobType, Place, Status
  <2>4. NewJob = i
    BY <2>1, Zenon DEF NewJob, m
  <2>5. QED
    BY <2>3, <2>4, Zenon
<1>3. << >> \in Given /\ j.answer \in Given
  BY GivenIsText DEF JobType
<1> DEFINE a == IF s = "ok" THEN j.answer ELSE << >>
<1>4. a \in Given
  BY <1>3
<1> HIDE DEF a
<1>5. [NewJob EXCEPT !.at = "done", !.status = s, !.answer = a] \in JobType
  BY <1>2, <1>4 DEF JobType, Place
<1>6. Over(j, s) = [NewJob EXCEPT !.at = "done", !.status = s, !.answer = a]
  BY DEF Over, a
<1>7. QED
  BY <1>2, <1>5, <1>6 DEF NewJob, a

LEMMA OverIsTimely ==
  ASSUME NEW r \in BOOLEAN, NEW j \in JobType, NEW s \in Status
  PROVE  OnTime(r, Over(j, s)) /\ Counted(r, Over(j, s))
<1> DEFINE k == Over(j, s)
<1>1. /\ k.at = "done" /\ k.left = 0 /\ k.sock = 0 /\ k.limit = 0 /\ k.sent = 0
      /\ k.next = 0 /\ k.emitted = 0
  BY OverFields
<1> HIDE DEF k
<1>2. OnTime(r, k)
  BY <1>1 DEF OnTime, Running, Asking, Working
<1>3. Counted(r, k)
  BY <1>1 DEF Counted
<1>4. QED
  BY <1>2, <1>3 DEF k

(* A call whose work ends without a whole answer, or that nobody waits for *)
(* any more.                                                               *)
LEMMA OverIsSound ==
  ASSUME NEW r \in BOOLEAN, NEW j \in JobType, NEW i \in JobType, NEW t \in TurnType,
         NEW s \in Status, s # "ok" \/ t.at # "waiting",
         CallSound(r, j, t), j.at \notin {"none", "done"}
  PROVE  Over(i, s) \in JobType /\ CallSound(r, Over(i, s), t)
<1> DEFINE k == Over(i, s)
<1>1. k \in JobType /\ OnTime(r, k) /\ Counted(r, k) /\ k.at = "done" /\ k.status = s
  BY OverFields, OverIsTimely
<1>2. t.at \notin {"idle", "answered"}
  BY DEF CallSound, Heard
<1> HIDE DEF k
<1>3. Heard(r, k, t)
  BY <1>1, <1>2 DEF Heard, Asking
<1>4. Marked(r, k, t)
  BY <1>1, <1>2 DEF Marked
<1>5. QED
  BY <1>1, <1>3, <1>4 DEF CallSound, k

(* stream_chat starts, with what is left of the budget and of the          *)
(* attempts.                                                               *)
StartOf(j, lone) ==
  [j EXCEPT !.at = "ready", !.att = Share(j), !.chats = @ + 1, !.sent = 0,
            !.mute = FALSE, !.retried = FALSE, !.told = FALSE, !.answer = << >>, !.alone = lone]

LEMMA ShareIsATime ==
  ASSUME NEW j \in JobType, j.tries >= 1
  PROVE  /\ Share(j) \in Nat
         /\ j.tries = 2 /\ j.left >= 2 => Share(j) < j.left
<1>1. j.left \in Nat /\ j.tries \in Nat /\ j.tries > 0
  BY DEF JobType
<1>2. j.left \div j.tries \in Int
  BY <1>1
<1>3. Share(j) \in Nat
  BY <1>2 DEF Share, Most, MIN_BUDGET
<1>4. j.tries = 2 /\ j.left >= 2 => j.left \div j.tries < j.left
  BY <1>1
<1>5. QED
  BY <1>1, <1>2, <1>3, <1>4 DEF Share, Most, MIN_BUDGET

LEMMA StartFields ==
  ASSUME NEW j \in JobType, NEW lone \in BOOLEAN, j.tries >= 1
  PROVE  LET k == StartOf(j, lone)
         IN /\ k \in JobType
            /\ k.at = "ready" /\ k.att = Share(j) /\ k.chats = j.chats + 1 /\ k.sent = 0
            /\ k.retried = FALSE /\ k.told = FALSE /\ k.left = j.left /\ k.sock = j.sock
            /\ k.limit = j.limit /\ k.tries = j.tries /\ k.next = j.next
            /\ k.emitted = j.emitted /\ k.overrun = j.overrun /\ k.alone = lone
<1>1. Share(j) \in Nat
  BY ShareIsATime
<1>2. << >> \in Given
  BY GivenIsText
<1>7. PICK e \in Given : e = << >>
  BY <1>2
<1> DEFINE n == j.chats + 1
           i == [j EXCEPT !.at = "ready", !.att = Share(j), !.chats = n, !.sent = 0,
                           !.mute = FALSE, !.retried = FALSE, !.told = FALSE, !.answer = e]
<1>8. n \in Nat
  BY DEF JobType
<1> HIDE DEF n
<1>3. i \in JobType
  BY <1>1, <1>8 DEF JobType, Place
<1>4. /\ i.at = "ready" /\ i.att = Share(j) /\ i.chats = n /\ i.sent = 0
      /\ i.retried = FALSE /\ i.told = FALSE /\ i.left = j.left /\ i.sock = j.sock
      /\ i.limit = j.limit /\ i.tries = j.tries /\ i.next = j.next
      /\ i.emitted = j.emitted /\ i.overrun = j.overrun
  BY DEF JobType
<1>5. StartOf(j, lone) = [i EXCEPT !.alone = lone]
  BY <1>7, Zenon DEF StartOf, n
<1> HIDE DEF i
<1>6. QED
  BY <1>3, <1>4, <1>5 DEF JobType, n

LEMMA StartIsSound ==
  ASSUME NEW r \in BOOLEAN, NEW j \in JobType, NEW t \in TurnType, NEW lone \in BOOLEAN,
         j.tries >= 1, j.left <= RoundTimeout, j.sock <= j.limit,
         j.next = 0, j.emitted = 0,
         r => j.chats + j.tries = MaxAttempts,
         j.left >= 2 \/ j.chats >= 1,
         t.at \notin {"idle", "answered"}, t.at = "waiting" => t.text = << >> /\ ~t.final
  PROVE  StartOf(j, lone) \in JobType /\ CallSound(r, StartOf(j, lone), t)
<1> DEFINE k == StartOf(j, lone)
<1>1. /\ k \in JobType
      /\ k.at = "ready" /\ k.att = Share(j) /\ k.chats = j.chats + 1 /\ k.sent = 0
      /\ k.retried = FALSE /\ k.left = j.left /\ k.sock = j.sock
      /\ k.limit = j.limit /\ k.tries = j.tries /\ k.next = 0 /\ k.emitted = 0
  BY StartFields, ZenonT(60)
<1>2. j.chats \in Nat /\ j.tries \in Nat /\ j.left \in Nat
  BY DEF JobType
<1>3. Share(j) \in Nat /\ (j.tries = 2 /\ j.left >= 2 => Share(j) < j.left)
  BY ShareIsATime
<1> HIDE DEF k
<1>4. MaxAttempts <= 2 /\ r /\ k.tries >= 2 => k.left > k.att
  BY <1>1, <1>2, <1>3
<1>5. OnTime(r, k)
  BY <1>1, <1>2, <1>4 DEF OnTime, Running, Asking, Working
<1>6. Counted(r, k)
  BY <1>1 DEF Counted
<1>7. Heard(r, k, t)
  BY <1>1 DEF Heard, Asking
<1>8. Marked(r, k, t)
  BY <1>1 DEF Marked
<1>9. QED
  BY <1>1, <1>5, <1>6, <1>7, <1>8 DEF CallSound, k

----------------------------------------------------------------------------
(* Steps of generate.                                                      *)

LEMMA FailFields ==
  ASSUME NEW t \in TurnType, NEW code \in Code
  PROVE  LET u == FailTurn(t, code)
         IN u \in TurnType /\ u.at = "failed" /\ u.text = << >> /\ u.final = FALSE
<1>1. PICK e \in Text : e = << >>
  BY GivenIsText
<1> DEFINE u == [t EXCEPT !.at = "failed", !.code = code, !.rpc = 0, !.text = e,
                          !.final = FALSE]
<1>2. u \in TurnType /\ u.at = "failed" /\ u.text = e /\ u.final = FALSE
  BY DEF TurnType
<1>3. FailTurn(t, code) = u
  BY <1>1, Zenon DEF FailTurn
<1> HIDE DEF u
<1>4. QED
  BY <1>1, <1>2, <1>3

LEMMA FailIsSound ==
  ASSUME NEW r \in BOOLEAN, NEW j \in JobType, NEW t \in TurnType, NEW code \in Code,
         OnTime(r, j), Counted(r, j), j.at # "none",
         r /\ j.at = "close" /\ j.status = "ok" => Marks(j.broke, j.chats - 1, Whole(j))
  PROVE  FailTurn(t, code) \in TurnType /\ CallSound(r, j, FailTurn(t, code))
<1> DEFINE u == FailTurn(t, code)
<1>1. u \in TurnType /\ u.at = "failed" /\ u.text = << >> /\ u.final = FALSE
  BY FailFields
<1> HIDE DEF u
<1>2. Heard(r, j, u)
  BY <1>1 DEF Heard
<1>3. Marked(r, j, u)
  BY <1>1 DEF Marked
<1>4. QED
  BY <1>1, <1>2, <1>3 DEF CallSound, u

LEMMA CallIsSound ==
  ASSUME NEW r \in BOOLEAN, NEW j \in JobType, NEW t \in TurnType, NEW x \in Nat,
         CallSound(r, j, t), t.at = "idle"
  PROVE  LET k == [j EXCEPT !.at = "queued"]
             u == [t EXCEPT !.at = "waiting", !.rpc = x]
         IN k \in JobType /\ u \in TurnType /\ CallSound(r, k, u)
<1> DEFINE k == [j EXCEPT !.at = "queued"]
           u == [t EXCEPT !.at = "waiting", !.rpc = x]
<1>1. /\ k \in JobType /\ k.at = "queued" /\ k.left = j.left /\ k.sock = j.sock
      /\ k.limit = j.limit /\ k.sent = j.sent /\ k.chats = j.chats /\ k.next = j.next
      /\ k.emitted = j.emitted
  BY DEF JobType, Place
<1>2. u \in TurnType /\ u.at = "waiting" /\ u.text = t.text /\ u.final = t.final
  BY DEF TurnType
<1>3. j.at = "none"
  BY DEF CallSound, Heard
<1> HIDE DEF k, u
<1>4. OnTime(r, k)
  BY <1>1, <1>3 DEF CallSound, OnTime, Working, Running, Asking
<1>5. Counted(r, k)
  BY <1>1, <1>3 DEF CallSound, Counted
<1>6. Heard(r, k, u)
  BY <1>1, <1>2, <1>3 DEF CallSound, Heard, Asking
<1>7. Marked(r, k, u)
  BY <1>1, <1>2 DEF Marked
<1>8. QED
  BY <1>1, <1>2, <1>4, <1>5, <1>6, <1>7 DEF CallSound, k, u

(* The end of a call for which generate waits.                             *)
LEMMA FinishIsSound ==
  ASSUME NEW r \in BOOLEAN, NEW j \in JobType, NEW t \in TurnType,
         CallSound(r, j, t), t.at = "waiting", j.at = "done"
  PROVE  LET k == [j EXCEPT !.status = "none", !.meta = NoMeta]
             u == IF j.status # "ok" THEN FailTurn(t, CodeOf(j.status))
                  ELSE IF t.final /\ t.text # << >>
                  THEN [t EXCEPT !.at = "answered", !.rpc = 0, !.meta = j.meta]
                  ELSE FailTurn(t, "engine_protocol")
         IN k \in JobType /\ u \in TurnType /\ CallSound(r, k, u)
<1> DEFINE m == NoMeta
           k == [j EXCEPT !.status = "none", !.meta = m]
<1>1. m \in MetaType
  BY DEF NoMeta, MetaType
<1> HIDE DEF m
<1>2. /\ k \in JobType /\ k.at = "done" /\ k.left = j.left /\ k.sock = j.sock
      /\ k.limit = j.limit /\ k.sent = j.sent /\ k.chats = j.chats /\ k.next = j.next
      /\ k.emitted = j.emitted /\ k.answer = j.answer /\ k.status = "none"
  BY <1>1 DEF JobType, Place, Status
<1> HIDE DEF k
<1>3. OnTime(r, k)
  BY <1>2 DEF CallSound, OnTime, Working, Running, Asking
<1>4. Counted(r, k)
  BY <1>2 DEF CallSound, Counted
<1>5. Whole(k) = Whole(j)
  BY <1>2 DEF Whole
<1>6. ASSUME NEW code \in Code
      PROVE  FailTurn(t, code) \in TurnType /\ CallSound(r, k, FailTurn(t, code))
  BY <1>2, <1>3, <1>4, FailIsSound
<1>7. CASE j.status = "ok" /\ t.final /\ t.text # << >>
  <2> DEFINE u == [t EXCEPT !.at = "answered", !.rpc = 0, !.meta = j.meta]
  <2>1. j.meta \in MetaType
    BY DEF JobType
  <2>2. /\ u \in TurnType /\ u.at = "answered" /\ u.text = t.text /\ u.final = t.final
        /\ u.meta = j.meta
    BY <2>1 DEF TurnType
  <2>3. t.text = Whole(j)
    BY <1>7 DEF CallSound, Heard
  <2> HIDE DEF u
  <2>4. Heard(r, k, u)
    BY <1>2, <1>5, <1>7, <2>2, <2>3 DEF Heard
  <2>5. r => Marks(j.meta.broke, j.meta.regenerations, Whole(j))
    BY <1>7 DEF CallSound, Marked
  <2>6. Marked(r, k, u)
    BY <1>2, <2>2, <2>3, <2>5 DEF Marked
  <2>7. QED
    BY <1>2, <1>3, <1>4, <1>7, <2>2, <2>4, <2>6 DEF CallSound, u, k, m
<1>8. CASE ~(j.status = "ok" /\ t.final /\ t.text # << >>)
  <2>1. CodeOf(j.status) \in Code /\ "engine_protocol" \in Code
    BY DEF CodeOf, Code
  <2>2. QED
    BY <1>2, <1>6, <1>8, <2>1 DEF k, m
<1>9. QED
  BY <1>7, <1>8

----------------------------------------------------------------------------
(* Steps of the servicer.                                                  *)

LEMMA ReceiveFields ==
  ASSUME NEW t \in TurnType, NEW words \in Text
  PROVE  LET u == Receive(t, words)
         IN /\ u \in TurnType
            /\ \/ u.at = "failed" /\ u.text = << >> /\ u.final = FALSE
               \/ /\ u.at = t.at /\ u.text = t.text \o words /\ u.final = t.final
                  /\ u.meta = t.meta
<1>1. CASE "huge" \in Range(words)
  <2>1. Receive(t, words) = FailTurn(t, "engine_protocol")
    BY <1>1 DEF Receive
  <2>2. "engine_protocol" \in Code
    BY DEF Code
  <2>3. QED
    BY <2>1, <2>2, FailFields
<1>2. CASE "huge" \notin Range(words)
  <2> DEFINE x == t.text \o words
             u == [t EXCEPT !.text = x]
  <2>1. t.text \in Text
    BY DEF TurnType
  <2>2. x \in Text
    BY <2>1 DEF Text
  <2>3. Receive(t, words) = u
    BY <1>2 DEF Receive
  <2> HIDE DEF x
  <2>4. u \in TurnType /\ u.at = t.at /\ u.text = x /\ u.final = t.final /\ u.meta = t.meta
    BY <2>2 DEF TurnType
  <2>5. QED
    BY <2>3, <2>4 DEF x
<1>3. QED
  BY <1>1, <1>2

(* A chunk, of which the text is the next part or the whole of what it     *)
(* ought to be, is taken or dropped.                                       *)
LEMMA YieldIsSound ==
  ASSUME NEW r \in BOOLEAN, NEW j \in JobType, NEW t \in TurnType, CallSound(r, j, t),
         j.at = "drain", NEW k \in JobType, NEW words \in Text,
         OnTime(r, k), Counted(r, k),
         k.at = "drain" \/ (k.at = "close" /\ k.status = "ok"),
         t.at = "waiting" /\ k.at = "drain" => t.text \o words = IF r THEN << >> ELSE Handled(k),
         t.at = "waiting" /\ k.at = "close" => t.text \o words = Whole(k),
         r /\ k.at = "close" => Marks(k.broke, k.chats - 1, Whole(k))
  PROVE  LET i == IF words = << >> \/ t.at = "waiting" THEN k ELSE Over(k, "gone")
             u == IF t.at = "waiting" THEN Receive(t, words) ELSE t
         IN i \in JobType /\ u \in TurnType /\ CallSound(r, i, u)
<1>1. t.at \notin {"idle", "answered"} /\ (t.at = "waiting" => ~t.final)
  BY DEF CallSound, Heard
<1>2. CASE t.at = "waiting"
  <2> DEFINE u == Receive(t, words)
  <2>1. /\ u \in TurnType
        /\ \/ u.at = "failed" /\ u.text = << >> /\ u.final = FALSE
           \/ u.at = "waiting" /\ u.text = t.text \o words /\ u.final = t.final
    BY <1>2, ReceiveFields
  <2> HIDE DEF u
  <2>2. Heard(r, k, u)
    BY <1>1, <1>2, <2>1 DEF Heard, Asking
  <2>3. Marked(r, k, u)
    BY <1>1, <1>2, <2>1 DEF Marked
  <2>4. QED
    BY <1>2, <2>1, <2>2, <2>3 DEF CallSound, u
<1>3. CASE t.at # "waiting" /\ words = << >>
  <2>1. Heard(r, k, t)
    BY <1>1, <1>3 DEF Heard
  <2>2. Marked(r, k, t)
    BY <1>1, <1>3 DEF Marked
  <2>3. QED
    BY <1>3, <2>1, <2>2 DEF CallSound
<1>4. CASE t.at # "waiting" /\ words # << >>
  <2>1. "gone" \in Status
    BY DEF Status
  <2>2. Over(k, "gone") \in JobType /\ CallSound(r, Over(k, "gone"), t)
    BY <1>4, <2>1, OverIsSound
  <2>3. QED
    BY <1>4, <2>2
<1>5. QED
  BY <1>2, <1>3, <1>4

(* To the words so far the next ones are added, up to max_words.           *)
LEMMA CutByParts ==
  ASSUME NEW a \in Text, NEW b \in Text, Len(a) <= MaxWords
  PROVE  LET candidate == a \o b
             words == SubSeq(Cut(candidate), Len(a) + 1, Least(Len(candidate), MaxWords))
         IN /\ candidate \in Text /\ words \in Text /\ Cut(candidate) \in Text
            /\ a \o words = Cut(candidate)
            /\ Len(candidate) <= MaxWords =>
                 Cut(candidate) = candidate /\ Len(a) + Len(words) = Len(candidate)
<1> DEFINE candidate == a \o b
           n == Least(Len(candidate), MaxWords)
           words == SubSeq(Cut(candidate), Len(a) + 1, n)
<1>1. MaxWords \in Nat
  OBVIOUS
<1>2. /\ candidate \in Text /\ Len(candidate) = Len(a) + Len(b)
      /\ \A i \in 1..Len(a) : candidate[i] = a[i]
  BY DEF Text
<1>3. n \in Nat /\ Len(a) <= n /\ n <= Len(candidate) /\ n <= MaxWords
  BY <1>1, <1>2 DEF Least, Text
<1>4. (Len(candidate) <= MaxWords => n = Len(candidate)) /\ Cut(candidate) = SubSeq(candidate, 1, n)
  BY <1>1, <1>2 DEF Least, Cut, Text
<1> HIDE DEF candidate, n
<1>5. /\ Cut(candidate) \in Text /\ Len(Cut(candidate)) = n
      /\ \A i \in 1..n : Cut(candidate)[i] = candidate[i]
  BY <1>2, <1>3, <1>4 DEF Text
<1>6. /\ words \in Text /\ Len(words) = n - Len(a)
      /\ \A i \in 1..(n - Len(a)) : words[i] = Cut(candidate)[Len(a) + i]
  BY <1>3, <1>5 DEF Text
<1> HIDE DEF words
<1>7. a \o words = Cut(candidate)
  <2>1. a \o words \in Text /\ Len(a \o words) = n
    BY <1>3, <1>6 DEF Text
  <2>2. ASSUME NEW i \in 1..n  PROVE (a \o words)[i] = Cut(candidate)[i]
    <3>0. i \in Nat /\ n \in Nat /\ 1 <= i /\ i <= n /\ Len(a) \in Nat
      BY <1>3 DEF Text
    <3>1. CASE i <= Len(a)
      <4>1. (a \o words)[i] = a[i]
        BY <1>6, <3>0, <3>1 DEF Text
      <4>2. QED
        BY <1>2, <1>5, <3>1, <4>1 DEF Text
    <3>2. CASE i > Len(a)
      <4>1. (a \o words)[i] = words[i - Len(a)]
        BY <1>6, <3>0, <3>2 DEF Text
      <4>2. i - Len(a) \in 1..(n - Len(a)) /\ Len(a) + (i - Len(a)) = i
        BY <3>0, <3>2
      <4>3. QED
        BY <1>6, <4>1, <4>2
    <3>3. i <= Len(a) \/ i > Len(a)
      BY <3>0
    <3>4. QED
      BY <3>1, <3>2, <3>3, Zenon
  <2>3. QED
    BY <1>5, <2>1, <2>2 DEF Text
<1>8. Len(candidate) <= MaxWords => Cut(candidate) = candidate
  <2> SUFFICES ASSUME Len(candidate) <= MaxWords PROVE Cut(candidate) = candidate
    OBVIOUS
  <2>1. n = Len(candidate)
    BY <1>4
  <2>2. QED
    BY <1>2, <1>5, <2>1 DEF Text
<1>9. Len(candidate) <= MaxWords => Len(a) + Len(words) = Len(candidate)
  BY <1>3, <1>4, <1>6 DEF Text
<1>10. QED
  BY <1>2, <1>5, <1>6, <1>7, <1>8, <1>9 DEF candidate, words, n

(* More deltas do not change what is cut off a text that is too long.      *)
LEMMA CutOfBeginning ==
  ASSUME NEW a \in Text, NEW b \in Text, Begins(a, b), Len(a) > MaxWords
  PROVE  Cut(a) = Cut(b)
<1>1. MaxWords \in Nat /\ Len(b) >= Len(a)
  BY DEF Begins, Text
<1>2. Cut(a) = SubSeq(a, 1, MaxWords) /\ Cut(b) = SubSeq(b, 1, MaxWords)
  BY <1>1 DEF Cut, Least, Text
<1>3. \A i \in 1..MaxWords : b[i] = a[i]
  BY <1>1 DEF Begins, Text
<1>4. QED
  BY <1>1, <1>2, <1>3 DEF Text

(* The loop of _stream_incremental ends, or handles another delta.         *)
LEMMA DeltasEnd ==
  ASSUME NEW j \in JobType, NEW t \in TurnType,
         CallSound(FALSE, j, t), j.at = "drain", j.next = Len(j.answer)
  PROVE  Closing(j, "ok") \in JobType /\ CallSound(FALSE, Closing(j, "ok"), t)
<1> DEFINE k == Closing(j, "ok")
<1>1. j.chats >= 1 /\ "ok" \in Status
  BY DEF CallSound, OnTime, Working, Status
<1>2. /\ k \in JobType /\ OnTime(FALSE, k) /\ Counted(FALSE, k)
      /\ k.at = "close" /\ k.answer = j.answer
  BY <1>1, ClosingFields, ClosingIsTimely
<1>3. t.at \notin {"idle", "answered"} /\ (t.at = "waiting" => ~t.final)
  BY DEF CallSound, Heard
<1>4. j.answer \in Seq(Text)
  BY GivenIsText DEF JobType
<1>5. Handled(j) = FlattenSeq(j.answer)
  <2>1. SubSeq(j.answer, 1, Len(j.answer)) = j.answer
    BY <1>4
  <2>2. QED
    BY <2>1 DEF Handled
<1>6. Len(FlattenSeq(j.answer)) <= MaxWords /\ FlattenSeq(j.answer) \in Text
  <2>1. j.emitted = Len(Handled(j)) /\ j.emitted <= MaxWords
    BY DEF CallSound, Counted
  <2>2. FlattenSeq(j.answer) \in Seq(Word)
    BY <1>4, FlattenType DEF Text
  <2>3. QED
    BY <1>5, <2>1, <2>2 DEF Text
<1>7. Whole(k) = FlattenSeq(j.answer)
  <2> DEFINE w == FlattenSeq(j.answer)
  <2>1. w \in Text /\ Len(w) <= MaxWords /\ MaxWords \in Nat
    BY <1>6
  <2> HIDE DEF w
  <2>2. Cut(w) = w
    BY <2>1 DEF Cut, Least, Text
  <2>3. QED
    BY <1>2, <2>2 DEF Whole, w
<1>8. t.at = "waiting" => t.text = Whole(k)
  BY <1>5, <1>7 DEF CallSound, Heard
<1> HIDE DEF k
<1>9. Heard(FALSE, k, t)
  BY <1>2, <1>3, <1>8 DEF Heard, Asking
<1>10. Marked(FALSE, k, t)
  BY DEF Marked
<1>11. QED
  BY <1>2, <1>9, <1>10 DEF CallSound, k

LEMMA DeltaIsSound ==
  ASSUME NEW j \in JobType, NEW t \in TurnType,
         CallSound(FALSE, j, t), j.at = "drain", j.next # Len(j.answer)
  PROVE  LET candidate == FlattenSeq(SubSeq(j.answer, 1, j.next + 1))
             words == SubSeq(Cut(candidate), j.emitted + 1, Least(Len(candidate), MaxWords))
             k == IF Len(candidate) > MaxWords THEN Closing(j, "ok")
                  ELSE [j EXCEPT !.next = @ + 1, !.emitted = @ + Len(words)]
             i == IF words = << >> \/ t.at = "waiting" THEN k ELSE Over(k, "gone")
             u == IF t.at = "waiting" THEN Receive(t, words) ELSE t
         IN i \in JobType /\ u \in TurnType /\ CallSound(FALSE, i, u)
<1> DEFINE a == Handled(j)
           candidate == FlattenSeq(SubSeq(j.answer, 1, j.next + 1))
           words == SubSeq(Cut(candidate), j.emitted + 1, Least(Len(candidate), MaxWords))
<1>1. /\ j.answer \in Seq(Text) /\ j.next \in Nat /\ j.next < Len(j.answer)
      /\ j.emitted = Len(a) /\ Len(a) <= MaxWords
      /\ t.at = "waiting" => t.text = a
  <2>1. j.answer \in Seq(Text) /\ j.next \in Nat
    BY GivenIsText DEF JobType
  <2>2. /\ j.next <= Len(j.answer) /\ j.emitted = Len(Handled(j)) /\ j.emitted <= MaxWords
        /\ t.at = "waiting" => t.text = Handled(j)
    BY DEF CallSound, Counted, Heard
  <2>3. QED
    BY <2>1, <2>2
<1>2. a \in Text /\ j.answer[j.next + 1] \in Text
  <2>1. SubSeq(j.answer, 1, j.next) \in Seq(Text)
    BY <1>1
  <2>2. a \in Text
    BY <2>1, FlattenType DEF Handled, Text
  <2>3. QED
    BY <1>1, <2>2
<1>3. candidate = a \o j.answer[j.next + 1]
  BY <1>1, FlattenOneMore DEF Handled, Text
<1>4. /\ candidate \in Text /\ words \in Text /\ a \o words = Cut(candidate)
      /\ Len(candidate) <= MaxWords =>
           Cut(candidate) = candidate /\ Len(a) + Len(words) = Len(candidate)
  <2> DEFINE b == j.answer[j.next + 1]
  <2>1. b \in Text
    BY <1>2
  <2>2. candidate = a \o b
    BY <1>3
  <2> HIDE DEF a, b, candidate
  <2>3. QED
    BY <1>1, <1>2, <2>1, <2>2, CutByParts
<1>5. j.chats >= 1 /\ "ok" \in Status
  BY DEF CallSound, OnTime, Working, Status
<1>6. CASE Len(candidate) > MaxWords
  <2> DEFINE k == Closing(j, "ok")
  <2>1. /\ k \in JobType /\ OnTime(FALSE, k) /\ Counted(FALSE, k)
        /\ k.at = "close" /\ k.status = "ok" /\ k.answer = j.answer
    BY <1>5, ClosingFields, ClosingIsTimely
  <2>2. Begins(candidate, FlattenSeq(j.answer))
    <3>1. j.next + 1 \in 0..Len(j.answer)
      BY <1>1
    <3>2. QED
      BY <1>1, <3>1, FlattenBegins DEF Text
  <2>3. FlattenSeq(j.answer) \in Text
    BY <1>1, FlattenType DEF Text
  <2>4. Cut(candidate) = Whole(k)
    <3> HIDE DEF candidate
    <3>1. Cut(candidate) = Cut(FlattenSeq(j.answer))
      BY <1>4, <1>6, <2>2, <2>3, CutOfBeginning
    <3>2. QED
      BY <2>1, <3>1 DEF Whole
  <2>5. t.at = "waiting" => t.text \o words = Whole(k)
    BY <1>1, <1>4, <2>4
  <2> HIDE DEF words, candidate, k
  <2>6. LET i == IF words = << >> \/ t.at = "waiting" THEN k ELSE Over(k, "gone")
            u == IF t.at = "waiting" THEN Receive(t, words) ELSE t
        IN i \in JobType /\ u \in TurnType /\ CallSound(FALSE, i, u)
    BY <1>4, <2>1, <2>5, YieldIsSound
  <2>7. QED
    BY <1>6, <2>6 DEF words, candidate, k
<1>7. CASE ~(Len(candidate) > MaxWords)
  <2> DEFINE n == j.next + 1
             m == j.emitted + Len(words)
             k == [j EXCEPT !.next = n, !.emitted = m]
  <2>0. /\ Len(candidate) <= MaxWords /\ Len(candidate) \in Nat
        /\ Len(words) \in Nat /\ Len(a) \in Nat
    BY <1>2, <1>4, <1>7 DEF Text
  <2> HIDE DEF words, candidate, a
  <2>1. n \in Nat /\ m \in Nat /\ n <= Len(j.answer) /\ m = Len(candidate)
    BY <1>1, <1>4, <2>0
  <2> HIDE DEF n, m
  <2>2. /\ k \in JobType /\ k.at = "drain" /\ k.next = n /\ k.emitted = m
        /\ k.left = j.left /\ k.att = j.att /\ k.sock = j.sock /\ k.limit = j.limit
        /\ k.sent = j.sent /\ k.chats = j.chats /\ k.answer = j.answer
    BY <2>1 DEF JobType
  <2> HIDE DEF k
  <2>3. OnTime(FALSE, k)
    BY <2>2 DEF CallSound, OnTime, Working, Running, Asking
  <2>4. Handled(k) = candidate
    BY <2>2 DEF Handled, candidate, n
  <2>5. Counted(FALSE, k)
    BY <2>0, <2>1, <2>2, <2>4 DEF Counted
  <2>6. t.at = "waiting" => t.text \o words = Handled(k)
    BY <1>1, <1>4, <2>0, <2>4
  <2>7. LET i == IF words = << >> \/ t.at = "waiting" THEN k ELSE Over(k, "gone")
            u == IF t.at = "waiting" THEN Receive(t, words) ELSE t
        IN i \in JobType /\ u \in TurnType /\ CallSound(FALSE, i, u)
    BY <1>4, <2>2, <2>3, <2>5, <2>6, YieldIsSound
  <2>8. QED
    BY <1>7, <2>7 DEF words, candidate, k, n, m
<1>8. QED
  BY <1>6, <1>7

(* The verdict on a candidate: another attempt, or it is yielded whole.    *)
LEMMA JudgeIsSound ==
  ASSUME NEW j \in JobType, NEW t \in TurnType, NEW lone \in BOOLEAN,
         CallSound(TRUE, j, t), j.at = "drain"
  PROVE  LET candidate == Cut(FlattenSeq(j.answer))
             i == [j EXCEPT !.tries = @ - 1, !.broke = Breaks(candidate)]
             k == Closing(i, "ok")
             l == IF candidate = << >> \/ t.at = "waiting" THEN k ELSE Over(k, "gone")
             u == IF t.at = "waiting" THEN Receive(t, candidate) ELSE t
         IN /\ i.broke /\ i.tries > 0 =>
                 /\ i \in JobType /\ i.tries >= 1 /\ i.tries \in Nat
                 /\ StartOf(i, lone) \in JobType /\ CallSound(TRUE, StartOf(i, lone), t)
            /\ ~(i.broke /\ i.tries > 0) =>
                 l \in JobType /\ u \in TurnType /\ CallSound(TRUE, l, u)
<1> DEFINE candidate == Cut(FlattenSeq(j.answer))
           n == j.tries - 1
           b == Breaks(candidate)
           i == [j EXCEPT !.tries = n, !.broke = b]
           k == Closing(i, "ok")
<1>1. /\ j.answer \in Seq(Text) /\ j.tries \in Nat /\ j.chats \in Nat
      /\ j.tries >= 1 /\ j.chats >= 1 /\ j.chats + j.tries = MaxAttempts + 1
      /\ j.left <= RoundTimeout /\ j.sock <= j.limit /\ j.next = 0 /\ j.emitted = 0
      /\ t.at \notin {"idle", "answered"}
      /\ t.at = "waiting" => t.text = << >> /\ ~t.final
  <2>1. j.answer \in Seq(Text) /\ j.tries \in Nat /\ j.chats \in Nat
    BY GivenIsText DEF JobType
  <2>2. /\ j.tries >= 1 /\ j.chats >= 1 /\ j.chats + j.tries = MaxAttempts + 1
        /\ j.left <= RoundTimeout /\ j.sock <= j.limit
    BY DEF CallSound, OnTime, Working, Running
  <2>3. j.next = 0 /\ j.emitted = 0
    BY DEF CallSound, Counted
  <2>4. /\ t.at \notin {"idle", "answered"}
        /\ t.at = "waiting" => t.text = << >> /\ ~t.final
    BY DEF CallSound, Heard
  <2>5. QED
    BY <2>1, <2>2, <2>3, <2>4
<1>2. candidate \in Text
  <2> DEFINE w == FlattenSeq(j.answer)
  <2>1. w \in Text
    BY <1>1, FlattenType DEF Text
  <2> HIDE DEF w
  <2>2. Cut(w) \in Text
    BY <2>1 DEF Cut, Least, Text
  <2>3. QED
    BY <2>2 DEF w
<1>3. n \in Nat /\ b \in BOOLEAN
  BY <1>1 DEF Breaks
<1> HIDE DEF candidate, n, b
<1>4. /\ i \in JobType /\ i.tries = n /\ i.broke = b /\ i.left = j.left /\ i.sock = j.sock
      /\ i.limit = j.limit /\ i.next = j.next /\ i.emitted = j.emitted
      /\ i.chats = j.chats /\ i.answer = j.answer
  BY <1>3 DEF JobType
<1>5. MaxAttempts \in Nat /\ i.chats + i.tries = MaxAttempts
  BY <1>1, <1>4 DEF n
<1> HIDE DEF i
<1>6. ASSUME i.tries > 0
      PROVE  /\ i \in JobType /\ i.tries >= 1 /\ i.tries \in Nat
             /\ StartOf(i, lone) \in JobType /\ CallSound(TRUE, StartOf(i, lone), t)
  <2>1. i.tries >= 1 /\ i.tries \in Nat
    BY <1>3, <1>4, <1>6
  <2>2. QED
    BY <1>1, <1>4, <1>5, <2>1, StartIsSound
<1>7. ASSUME ~(i.broke /\ i.tries > 0)
      PROVE  LET l == IF candidate = << >> \/ t.at = "waiting" THEN k ELSE Over(k, "gone")
                 u == IF t.at = "waiting" THEN Receive(t, candidate) ELSE t
             IN l \in JobType /\ u \in TurnType /\ CallSound(TRUE, l, u)
  <2>1. "ok" \in Status /\ i.chats >= 1
    BY <1>1, <1>4 DEF Status
  <2>2. /\ k \in JobType /\ k.at = "close" /\ k.status = "ok" /\ k.answer = j.answer
        /\ k.chats = i.chats /\ k.broke = b /\ OnTime(TRUE, k) /\ Counted(TRUE, k)
    BY <1>4, <2>1, ClosingFields, ClosingIsTimely, ZenonT(60)
  <2>3. Whole(k) = candidate
    BY <2>2 DEF Whole, candidate
  <2>4. k.broke <=> Breaks(Whole(k))
    BY <2>2, <2>3, Zenon DEF b
  <2>5. k.broke => k.chats - 1 = MaxAttempts - 1
    <3>1. ~k.broke \/ i.tries = 0
      BY <1>3, <1>4, <1>7, <2>2
    <3>2. i.tries = 0 => k.chats = MaxAttempts
      BY <1>1, <1>4, <1>5, <2>2
    <3>3. QED
      BY <3>1, <3>2
  <2>6. Marks(k.broke, k.chats - 1, Whole(k))
    BY <2>4, <2>5, Zenon DEF Marks
  <2>7. t.at = "waiting" => t.text \o candidate = Whole(k)
    <3>1. << >> \o candidate = candidate
      BY <1>2 DEF Text
    <3>2. QED
      BY <1>1, <2>3, <3>1
  <2> HIDE DEF k
  <2>8. QED
    BY <1>2, <2>2, <2>6, <2>7, YieldIsSound
<1>8. QED
  BY <1>6, <1>7 DEF candidate, i, n, b, k

(* The final marker and the metadata, if the RPC still waits for them.     *)
LEMMA CloseIsSound ==
  ASSUME NEW r \in BOOLEAN, NEW j \in JobType, NEW t \in TurnType, NEW a \in Nat,
         NEW usage \in {Nobody} \cup Calls, CallSound(r, j, t), j.at = "close"
  PROVE  LET ok == j.status = "ok"
             meta == [attempts |-> a, usage |-> usage, broke |-> ok /\ j.broke,
                      regenerations |-> IF ok THEN j.chats - 1 ELSE 0]
             k == IF t.at = "waiting" THEN [Over(j, j.status) EXCEPT !.meta = meta]
                                      ELSE Over(j, "gone")
             u == [t EXCEPT !.final = @ \/ (ok /\ t.at = "waiting")]
         IN k \in JobType /\ u \in TurnType /\ CallSound(r, k, u)
<1> DEFINE ok == j.status = "ok"
           b == ok /\ j.broke
           n == IF ok THEN j.chats - 1 ELSE 0
           meta == [attempts |-> a, usage |-> usage, broke |-> b, regenerations |-> n]
           f == t.final \/ (ok /\ t.at = "waiting")
           u == [t EXCEPT !.final = f]
<1>1. j.chats >= 1 /\ j.chats \in Nat /\ j.status \in Status
  BY DEF CallSound, OnTime, Working, JobType
<1>2. n \in Nat /\ b \in BOOLEAN /\ f \in BOOLEAN
  BY <1>1 DEF JobType, TurnType
<1>3. t.at \notin {"idle", "answered"}
  BY DEF CallSound, Heard
<1>4. CASE t.at = "waiting"
  <2> DEFINE o == Over(j, j.status)
             k == [o EXCEPT !.meta = meta]
  <2>1. /\ o \in JobType /\ o.at = "done" /\ o.status = j.status /\ o.left = 0
        /\ o.sock = 0 /\ o.limit = 0 /\ o.next = 0 /\ o.emitted = 0 /\ o.sent = 0
        /\ o.answer = IF j.status = "ok" THEN j.answer ELSE << >>
        /\ OnTime(r, o) /\ Counted(r, o)
    BY <1>1, OverFields, OverIsTimely
  <2> HIDE DEF o, n, b, f
  <2>2. meta \in MetaType /\ meta.broke = b /\ meta.regenerations = n
    BY <1>2 DEF MetaType
  <2> HIDE DEF meta
  <2>3. /\ k \in JobType /\ k.meta = meta /\ k.at = "done" /\ k.status = j.status
        /\ k.left = o.left /\ k.sock = o.sock /\ k.limit = o.limit /\ k.next = o.next
        /\ k.emitted = o.emitted /\ k.sent = o.sent /\ k.answer = o.answer
    BY <2>1, <2>2 DEF JobType
  <2>4. u \in TurnType /\ u.at = "waiting" /\ u.text = t.text /\ u.final = f
    BY <1>2, <1>4 DEF TurnType
  <2> HIDE DEF k, u
  <2>5. OnTime(r, k)
    BY <2>1, <2>3 DEF OnTime, Working, Running, Asking
  <2>6. Counted(r, k)
    BY <2>1, <2>3 DEF Counted
  <2>7. ok => Whole(k) = Whole(j) /\ t.text = Whole(j) /\ f
    BY <1>4, <2>1, <2>3 DEF CallSound, Heard, Whole, f
  <2>8. Heard(r, k, u)
    BY <2>3, <2>4, <2>7 DEF Heard, Asking
  <2>9. ok /\ r => Marks(b, n, Whole(j))
    <3> SUFFICES ASSUME ok, r PROVE Marks(b, n, Whole(j))
      OBVIOUS
    <3>1. Marks(j.broke, j.chats - 1, Whole(j))
      BY DEF CallSound, Marked
    <3>2. (b <=> j.broke) /\ n = j.chats - 1
      BY DEF b, n
    <3>3. QED
      BY <3>1, <3>2, Zenon DEF Marks
  <2>10. Marked(r, k, u)
    <3> SUFFICES ASSUME r, j.status = "ok"
                 PROVE  Marks(k.meta.broke, k.meta.regenerations, Whole(k))
      BY <2>3, <2>4 DEF Marked
    <3>1. k.meta.broke = b /\ k.meta.regenerations = n
      BY <2>2, <2>3
    <3>2. QED
      BY <2>7, <2>9, <3>1, Zenon
  <2>11. k \in JobType /\ u \in TurnType /\ CallSound(r, k, u)
    BY <2>3, <2>4, <2>5, <2>6, <2>8, <2>10 DEF CallSound
  <2>12. QED
    BY <1>4, <2>11 DEF k, u, meta, n, b, f, o
<1>5. CASE t.at # "waiting"
  <2>1. f <=> t.final
    BY <1>5 DEF f
  <2>2. u = t
    BY <1>2, <2>1, f = t.final DEF TurnType
  <2>3. "gone" \in Status
    BY DEF Status
  <2>4. Over(j, "gone") \in JobType /\ CallSound(r, Over(j, "gone"), t)
    BY <1>5, <2>3, OverIsSound
  <2>5. QED
    BY <1>5, <2>2, <2>4
<1>6. QED
  BY <1>4, <1>5

----------------------------------------------------------------------------
(* Steps of the HTTP client.  A stream_chat that goes on keeps the counts  *)
(* of its call, and generate hears nothing of it.                          *)

Continues(j, k) ==
  /\ k.left = j.left /\ k.chats = j.chats /\ k.tries = j.tries /\ k.next = j.next
  /\ k.emitted = j.emitted /\ k.overrun = j.overrun /\ k.att = j.att

LEMMA ContinuingIsSound ==
  ASSUME NEW r \in BOOLEAN, NEW j \in JobType, NEW k \in JobType, NEW t \in TurnType,
         CallSound(r, j, t), j.at \in Asking, k.at \in Asking \cup {"drain"},
         Continues(j, k), k.sock <= k.limit,
         k.at \in {"connecting", "reading"} => k.att <= k.sock /\ k.att <= k.limit,
         k.at \in {"ready", "connecting"} =>
           k.sent <= (IF k.retried THEN 1 ELSE 0) /\ (k.sent > 0 => k.mute),
         k.at = "reading" => k.sent <= IF k.mute THEN 2 ELSE 1,
         k.at = "drain" => k.sent = 0
  PROVE  CallSound(r, k, t)
<1>1. OnTime(r, k)
  BY DEF CallSound, OnTime, Continues, Working, Running, Asking
<1>2. k.next = 0 /\ k.emitted = 0 /\ k.answer \in Seq(Text)
  BY GivenIsText DEF CallSound, Counted, Continues, Asking, JobType
<1>3. Handled(k) = << >>
  <2>1. SubSeq(k.answer, 1, 0) = << >>
    BY <1>2
  <2>2. QED
    BY <1>2, <2>1, FlattenNothing DEF Handled
<1>4. Counted(r, k)
  BY <1>2, <1>3 DEF Counted
<1>5. /\ t.at \notin {"idle", "answered"}
      /\ t.at = "waiting" => t.text = << >> /\ ~t.final
  BY DEF CallSound, Heard, Asking
<1>6. Heard(r, k, t)
  BY <1>3, <1>5 DEF Heard, Asking
<1>7. Marked(r, k, t)
  BY <1>5 DEF Marked, Asking
<1>8. QED
  BY <1>1, <1>4, <1>6, <1>7 DEF CallSound

LEMMA ConnectIsSound ==
  ASSUME NEW r \in BOOLEAN, NEW j \in JobType, NEW t \in TurnType,
         CallSound(r, j, t), j.at = "ready"
  PROVE  LET k == IF j.att = 0 THEN Closing(j, "timeout")
                  ELSE [j EXCEPT !.at = "connecting", !.sock = j.att, !.limit = j.att]
         IN k \in JobType /\ CallSound(r, k, t)
<1>1. CASE j.att = 0
  <2>1. "timeout" \in Status /\ j.at \in Asking
    BY DEF Status, Asking
  <2>2. QED
    BY <1>1, <2>1, FailedClosing
<1>2. CASE j.att # 0
  <2> DEFINE k == [j EXCEPT !.at = "connecting", !.sock = j.att, !.limit = j.att]
  <2>1. k \in JobType
    BY DEF JobType, Place
  <2>2. /\ k.at = "connecting" /\ k.sock = j.att /\ k.limit = j.att /\ k.sent = j.sent
        /\ k.retried = j.retried /\ Continues(j, k) /\ k.att = j.att /\ j.att \in Nat
        /\ k.mute = j.mute
    BY DEF JobType, Continues
  <2> HIDE DEF k
  <2>3. j.sent <= (IF j.retried THEN 1 ELSE 0) /\ (j.sent > 0 => j.mute)
    BY DEF CallSound, OnTime
  <2>4. CallSound(r, k, t)
    BY <2>1, <2>2, <2>3, ContinuingIsSound DEF Asking
  <2>5. QED
    BY <1>2, <2>1, <2>4 DEF k
<1>3. QED
  BY <1>1, <1>2

(* The request that failed was not sent, or was not answered.              *)
Failed(j, i) == i = j \/ i = [j EXCEPT !.sent = @ + 1, !.mute = TRUE]

LEMMA FailedFields ==
  ASSUME NEW j \in JobType, NEW i, Failed(j, i)
  PROVE  /\ i \in JobType /\ i.retried = j.retried /\ i.att = j.att /\ i.at = j.at
         /\ i.told = j.told /\ i.alone = j.alone /\ Continues(j, i)
         /\ (i.sent = j.sent /\ i.mute = j.mute) \/ (i.sent = j.sent + 1 /\ i.mute)
<1> DEFINE n == j.sent + 1
<1>1. n \in Nat
  BY DEF JobType
<1>2. i = j \/ i = [j EXCEPT !.sent = n, !.mute = TRUE]
  BY DEF Failed
<1> HIDE DEF n
<1>3. /\ i \in JobType /\ i.retried = j.retried /\ i.att = j.att /\ i.at = j.at
      /\ i.told = j.told /\ i.alone = j.alone /\ Continues(j, i)
      /\ (i.sent = j.sent /\ i.mute = j.mute) \/ (i.sent = n /\ i.mute)
  BY <1>1, <1>2 DEF JobType, Continues
<1>4. QED  BY <1>3 DEF n

LEMMA SendFailureIsSound ==
  ASSUME NEW r \in BOOLEAN, NEW j \in JobType, NEW t \in TurnType, NEW i, Failed(j, i),
         CallSound(r, j, t), j.at = "connecting"
  PROVE  SendFailure(i) \in JobType /\ CallSound(r, SendFailure(i), t)
<1>1. /\ j.sent \in Nat /\ j.sent <= IF j.retried THEN 1 ELSE 0
      /\ j.sent > 0 => j.mute
  BY DEF JobType, CallSound, OnTime
<1>3. /\ i \in JobType /\ i.retried = j.retried /\ i.att = j.att
      /\ i.at = j.at /\ Continues(j, i)
      /\ (i.sent = j.sent /\ i.mute = j.mute) \/ (i.sent = j.sent + 1 /\ i.mute)
  BY FailedFields
<1>2. ~j.retried => i.sent <= 1 /\ (i.sent > 0 => i.mute)
  BY <1>1, <1>3
<1>4. CASE i.retried \/ i.att = 0
  <2>1. "unavailable" \in Status /\ j.at \in Asking /\ i.chats = j.chats
    BY <1>3 DEF Status, Asking, Continues
  <2>2. Closing(i, "unavailable") \in JobType /\ CallSound(r, Closing(i, "unavailable"), t)
    BY <1>3, <2>1, FailedClosing
  <2>3. SendFailure(i) = Closing(i, "unavailable")
    BY <1>4, Zenon DEF SendFailure
  <2>4. QED
    BY <2>2, <2>3
<1>5. CASE ~(i.retried \/ i.att = 0)
  <2> DEFINE k == [i EXCEPT !.at = "ready", !.retried = TRUE, !.sock = 0, !.limit = 0]
  <2>1. k \in JobType
    BY <1>3 DEF JobType, Place
  <2>2. /\ k.at = "ready" /\ k.retried = TRUE /\ k.sock = 0 /\ k.limit = 0
        /\ k.sent = i.sent /\ k.mute = i.mute /\ Continues(j, k)
    BY <1>3 DEF JobType, Continues
  <2>3. i.sent <= 1 /\ (i.sent > 0 => i.mute)
    BY <1>2, <1>3, <1>5
  <2> HIDE DEF k
  <2>4. CallSound(r, k, t)
    BY <1>1, <2>1, <2>2, <2>3, ContinuingIsSound DEF Asking
  <2>5. SendFailure(i) = k
    BY <1>5, Zenon DEF SendFailure, k
  <2>6. QED
    BY <2>1, <2>4, <2>5
<1>6. QED
  BY <1>4, <1>5

LEMMA RespondIsSound ==
  ASSUME NEW r \in BOOLEAN, NEW j \in JobType, NEW t \in TurnType,
         CallSound(r, j, t), j.at = "connecting"
  PROVE  LET k == [j EXCEPT !.at = "reading", !.sock = j.limit, !.sent = @ + 1]
         IN k \in JobType /\ CallSound(r, k, t)
<1> DEFINE n == j.sent + 1
           k == [j EXCEPT !.at = "reading", !.sock = j.limit, !.sent = n]
<1>1. n \in Nat /\ n <= IF j.mute THEN 2 ELSE 1
  <2>1. j.sent <= (IF j.retried THEN 1 ELSE 0) /\ (j.sent > 0 => j.mute)
    BY DEF CallSound, OnTime
  <2>2. QED
    BY <2>1 DEF JobType
<1> HIDE DEF n
<1>2. k \in JobType
  BY <1>1 DEF JobType, Place
<1>3. /\ k.at = "reading" /\ k.sock = j.limit /\ k.limit = j.limit /\ k.sent = n
      /\ k.mute = j.mute /\ Continues(j, k) /\ k.att = j.att /\ j.limit \in Nat
  BY DEF JobType, Continues
<1> HIDE DEF k
<1>4. j.att <= j.limit
  BY DEF CallSound, OnTime
<1>5. CallSound(r, k, t)
  BY <1>1, <1>2, <1>3, <1>4, ContinuingIsSound DEF Asking
<1>6. QED
  BY <1>2, <1>5 DEF k, n

LEMMA ReadLineIsSound ==
  ASSUME NEW r \in BOOLEAN, NEW j \in JobType, NEW t \in TurnType, NEW told \in BOOLEAN,
         CallSound(r, j, t), j.at = "reading"
  PROVE  LET k == [j EXCEPT !.sock = j.limit, !.told = told]
         IN k \in JobType /\ CallSound(r, k, t)
<1> DEFINE k == [j EXCEPT !.sock = j.limit, !.told = told]
<1>1. k \in JobType
  BY DEF JobType
<1>2. /\ k.at = "reading" /\ k.sock = j.limit /\ k.limit = j.limit /\ k.sent = j.sent
      /\ k.mute = j.mute /\ Continues(j, k) /\ k.att = j.att /\ j.limit \in Nat
  BY DEF JobType, Continues
<1> HIDE DEF k
<1>3. j.att <= j.limit /\ j.sent <= IF j.mute THEN 2 ELSE 1
  BY DEF CallSound, OnTime
<1>4. CallSound(r, k, t)
  BY <1>1, <1>2, <1>3, ContinuingIsSound DEF Asking
<1>5. QED
  BY <1>1, <1>4 DEF k

LEMMA ReadAllIsSound ==
  ASSUME NEW r \in BOOLEAN, NEW j \in JobType, NEW t \in TurnType, NEW a \in Answers,
         CallSound(r, j, t), j.at = "reading"
  PROVE  LET k == [j EXCEPT !.at = "drain", !.sock = 0, !.limit = 0, !.sent = 0,
                            !.mute = FALSE, !.answer = a]
         IN k \in JobType /\ CallSound(r, k, t)
<1> DEFINE k == [j EXCEPT !.at = "drain", !.sock = 0, !.limit = 0, !.sent = 0,
                          !.mute = FALSE, !.answer = a]
<1>1. a \in Given
  BY DEF Given
<1>2. k \in JobType
  BY <1>1 DEF JobType, Place
<1>3. k.at = "drain" /\ k.sock = 0 /\ k.limit = 0 /\ k.sent = 0 /\ Continues(j, k)
  BY DEF JobType, Continues
<1> HIDE DEF k
<1>4. CallSound(r, k, t)
  BY <1>2, <1>3, ContinuingIsSound DEF Asking
<1>5. QED
  BY <1>2, <1>4 DEF k

----------------------------------------------------------------------------
(* Time passes.                                                            *)

Later(r, j) ==
  [j EXCEPT !.left = Before(@), !.att = Before(@), !.sock = Before(@),
            !.overrun = @ \/ (r /\ j.att = 0 /\ j.at # "close")]

LEMMA BeforeIsATime ==
  ASSUME NEW n \in Nat
  PROVE  /\ Before(n) \in Nat /\ Before(n) <= n /\ (n > 0 => Before(n) = n - 1)
         /\ n = 0 => Before(n) = 0
  BY DEF Before, Most

LEMMA LaterFields ==
  ASSUME NEW r \in BOOLEAN, NEW j \in JobType
  PROVE  LET k == Later(r, j)
         IN /\ k \in JobType
            /\ k.left = Before(j.left) /\ k.att = Before(j.att) /\ k.sock = Before(j.sock)
            /\ ~k.overrun => ~j.overrun /\ ~(r /\ j.att = 0 /\ j.at # "close")
            /\ k.at = j.at /\ k.limit = j.limit /\ k.tries = j.tries /\ k.chats = j.chats
            /\ k.sent = j.sent /\ k.retried = j.retried /\ k.told = j.told
            /\ k.mute = j.mute
            /\ k.answer = j.answer /\ k.next = j.next /\ k.emitted = j.emitted
            /\ k.broke = j.broke /\ k.status = j.status /\ k.meta = j.meta
            /\ k.alone = j.alone
<1> DEFINE b == j.overrun \/ (r /\ j.att = 0 /\ j.at # "close")
           x == Before(j.left)
           y == Before(j.att)
           z == Before(j.sock)
           k == [j EXCEPT !.left = x, !.att = y, !.sock = z, !.overrun = b]
<1>1. j.left \in Nat /\ j.att \in Nat /\ j.sock \in Nat /\ j.overrun \in BOOLEAN
  BY DEF JobType
<1>2. b \in BOOLEAN /\ x \in Nat /\ y \in Nat /\ z \in Nat
  BY <1>1, BeforeIsATime
<1>3. Later(r, j) = k
  BY DEF Later
<1>4. ~b => ~j.overrun /\ ~(r /\ j.att = 0 /\ j.at # "close")
  OBVIOUS
<1> HIDE DEF b, x, y, z
<1>5. /\ k \in JobType /\ k.left = x /\ k.att = y /\ k.sock = z /\ k.overrun = b
      /\ k.at = j.at /\ k.limit = j.limit /\ k.tries = j.tries /\ k.chats = j.chats
      /\ k.sent = j.sent /\ k.retried = j.retried /\ k.told = j.told
      /\ k.mute = j.mute /\ k.answer = j.answer /\ k.next = j.next /\ k.emitted = j.emitted
      /\ k.broke = j.broke /\ k.status = j.status /\ k.meta = j.meta
      /\ k.alone = j.alone
  BY <1>2 DEF JobType
<1> HIDE DEF k
<1>6. ~k.overrun => ~b
  BY <1>5
<1>7. QED
  BY <1>3, <1>4, <1>5, <1>6 DEF x, y, z

LEMMA TickIsSound ==
  ASSUME NEW r \in BOOLEAN, NEW j \in JobType, NEW t \in TurnType, CallSound(r, j, t),
         j.at \in {"connecting", "reading"} => j.sock > 0
  PROVE  LET k == IF Working(j) THEN Later(r, j) ELSE j
             u == IF t.at = "waiting" THEN [t EXCEPT !.rpc = Before(@)] ELSE t
         IN k \in JobType /\ u \in TurnType /\ CallSound(r, k, u)
<1> DEFINE k == IF Working(j) THEN Later(r, j) ELSE j
           u == IF t.at = "waiting" THEN [t EXCEPT !.rpc = Before(@)] ELSE t
<1>1. /\ u \in TurnType /\ u.at = t.at /\ u.text = t.text /\ u.final = t.final
      /\ u.meta = t.meta
  <2> DEFINE n == Before(t.rpc)
  <2>1. n \in Nat
    BY BeforeIsATime DEF TurnType
  <2> HIDE DEF n
  <2>2. u = IF t.at = "waiting" THEN [t EXCEPT !.rpc = n] ELSE t
    BY DEF n
  <2> HIDE DEF u
  <2>3. QED
    BY <2>1, <2>2 DEF TurnType
<1>2. /\ k \in JobType /\ k.at = j.at /\ k.limit = j.limit /\ k.tries = j.tries
      /\ k.chats = j.chats /\ k.sent = j.sent /\ k.retried = j.retried
      /\ k.mute = j.mute
      /\ k.answer = j.answer /\ k.next = j.next /\ k.emitted = j.emitted
      /\ k.broke = j.broke /\ k.status = j.status /\ k.meta = j.meta
  BY LaterFields
<1>3. OnTime(r, k)
  <2>1. CASE Working(j)
    <3>1. /\ k.left = Before(j.left) /\ k.att = Before(j.att) /\ k.sock = Before(j.sock)
          /\ ~k.overrun => ~j.overrun /\ ~(r /\ j.att = 0 /\ j.at # "close")
      BY <2>1, LaterFields
    <3>2. /\ j.left \in Nat /\ j.att \in Nat /\ j.sock \in Nat /\ j.limit \in Nat
          /\ RoundTimeout \in Nat
      BY DEF JobType
    <3>3. /\ k.left <= j.left /\ k.sock <= j.sock
          /\ k.left \in Nat /\ k.att \in Nat /\ k.sock \in Nat
      BY <3>1, <3>2, BeforeIsATime
    <3>4. OnTime(r, j)
      BY DEF CallSound
    <3> HIDE DEF k
    <3>5. k.left <= RoundTimeout /\ k.sock <= k.limit
      BY <1>2, <3>2, <3>3, <3>4 DEF OnTime
    <3>6. k.at \in {"connecting", "reading"} => k.att <= k.sock /\ k.att <= k.limit
      <4> SUFFICES ASSUME k.at \in {"connecting", "reading"}
                   PROVE  k.att <= k.sock /\ k.att <= k.limit
        OBVIOUS
      <4>1. j.att <= j.sock /\ j.sock <= j.limit /\ j.sock > 0
        BY <1>2, <3>4 DEF OnTime
      <4>2. k.sock = j.sock - 1
        BY <3>1, <3>2, <4>1, BeforeIsATime
      <4>3. k.att <= j.sock - 1
        BY <3>1, <3>2, <4>1, BeforeIsATime
      <4>4. QED
        BY <1>2, <3>2, <3>3, <4>1, <4>2, <4>3
    <3>7. MaxAttempts <= 2 /\ r /\ Running(k) /\ ~k.overrun /\ k.tries >= 2 => k.left > k.att
      <4> SUFFICES ASSUME MaxAttempts <= 2, r, Running(k), ~k.overrun, k.tries >= 2
                   PROVE  k.left > k.att
        OBVIOUS
      <4>1. j.att # 0 /\ ~j.overrun /\ Running(j)
        BY <1>2, <3>1 DEF Running, Asking
      <4>2. j.left > j.att
        BY <1>2, <3>4, <4>1 DEF OnTime
      <4>3. j.left > 0 /\ j.att > 0
        BY <3>2, <4>1, <4>2
      <4>4. Before(j.left) = j.left - 1 /\ Before(j.att) = j.att - 1
        BY <3>2, <4>3, BeforeIsATime
      <4>5. QED
        BY <3>1, <3>2, <4>2, <4>4
    <3>8. QED
      BY <1>2, <3>4, <3>5, <3>6, <3>7 DEF OnTime, Working, Running
  <2>2. CASE ~Working(j)
    BY <2>2 DEF CallSound
  <2>3. QED
    BY <2>1, <2>2
<1> HIDE DEF k, u
<1>4. Handled(k) = Handled(j) /\ Whole(k) = Whole(j)
  BY <1>2 DEF Handled, Whole
<1>5. Counted(r, k)
  BY <1>2, <1>4 DEF CallSound, Counted
<1>6. Heard(r, k, u)
  BY <1>1, <1>2, <1>4 DEF CallSound, Heard
<1>7. Marked(r, k, u)
  BY <1>1, <1>2, <1>4 DEF CallSound, Marked
<1>8. QED
  BY <1>1, <1>2, <1>3, <1>5, <1>6, <1>7 DEF CallSound, k, u

----------------------------------------------------------------------------
(* The step of one call keeps the invariant for all.                       *)

LEMMA OneCallMoves ==
  ASSUME EngineSound, NEW c \in Calls, NEW k \in JobType, NEW u \in TurnType,
         job' = [job EXCEPT ![c] = k], turn' = [turn EXCEPT ![c] = u],
         engine' \in EngineType, engine'.regenerate = engine.regenerate,
         CallSound(engine.regenerate, k, u), Metered(engine', k, c),
         Working(k) => Working(job[c]) /\ (k.alone => job[c].alone),
         engine' = engine \/ Working(job[c])
  PROVE  EngineSound'
<1>1. Typed /\ Alone
  BY DEF EngineSound
<1>2. Typed'
  BY <1>1 DEF Typed
<1>3. job'[c] = k /\ turn'[c] = u
  BY <1>1 DEF Typed
<1>4. \A d \in Calls : d # c => job'[d] = job[d] /\ turn'[d] = turn[d]
  BY <1>1 DEF Typed
<1>5. \A d \in Calls : Working(job'[d]) => Working(job[d])
  BY <1>3, <1>4
<1>6. Busy' \subseteq Busy
  BY <1>5 DEF Busy
<1>7. Alone'
  <2> SUFFICES ASSUME NEW d \in Calls, Working(job'[d]), job'[d].alone
               PROVE  Busy' \subseteq {d}
    BY DEF Alone
  <2>1. Working(job[d]) /\ job[d].alone
    BY <1>3, <1>4
  <2>2. QED
    BY <1>1, <1>6, <2>1 DEF Alone
<1>8. ASSUME NEW d \in Calls
      PROVE  CallSound(engine.regenerate, job'[d], turn'[d]) /\ Metered(engine', job'[d], d)
  <2>1. CASE d = c
    BY <1>3, <2>1
  <2>2. CASE d # c
    <3>1. /\ job'[d] = job[d] /\ turn'[d] = turn[d]
          /\ CallSound(engine.regenerate, job[d], turn[d]) /\ Metered(engine, job[d], d)
      BY <1>4, <2>2 DEF EngineSound
    <3>2. CASE engine' = engine
      BY <3>1, <3>2
    <3>3. CASE Working(job[c])
      <4>1. c \in Busy
        BY <3>3 DEF Busy
      <4>2. ~(Working(job[d]) /\ job[d].alone)
        BY <1>1, <2>2, <4>1 DEF Alone
      <4>3. Metered(engine', job[d], d)
        BY <3>1, <4>2 DEF Metered
      <4>4. QED
        BY <3>1, <4>3
    <3>4. QED
      BY <3>2, <3>3
  <2>3. QED
    BY <2>1, <2>2
<1>9. QED
  BY <1>2, <1>7, <1>8 DEF EngineSound

LEMMA LonelinessIsNotHeard ==
  ASSUME NEW r \in BOOLEAN, NEW j \in JobType, NEW t \in TurnType, NEW b \in BOOLEAN,
         CallSound(r, j, t)
  PROVE  LET k == [j EXCEPT !.alone = b]
         IN /\ k \in JobType /\ CallSound(r, k, t) /\ k.alone = b /\ k.at = j.at
            /\ k.told = j.told
<1> DEFINE k == [j EXCEPT !.alone = b]
<1>1. k \in JobType
  BY DEF JobType
<1>2. /\ k.left = j.left /\ k.att = j.att /\ k.sock = j.sock
      /\ k.overrun = j.overrun /\ k.told = j.told
      /\ k.at = j.at /\ k.limit = j.limit /\ k.tries = j.tries
      /\ k.chats = j.chats /\ k.sent = j.sent /\ k.retried = j.retried
      /\ k.mute = j.mute
      /\ k.answer = j.answer /\ k.next = j.next /\ k.emitted = j.emitted
      /\ k.broke = j.broke /\ k.status = j.status /\ k.meta = j.meta
  BY DEF JobType
<1>3. k.alone = b
  BY DEF JobType
<1> HIDE DEF k
<1>4. Handled(k) = Handled(j) /\ Whole(k) = Whole(j)
  BY <1>2 DEF Handled, Whole
<1>5. OnTime(r, k)
  BY <1>2 DEF CallSound, OnTime, Working, Running
<1>6. Counted(r, k)
  BY <1>2, <1>4 DEF CallSound, Counted
<1>7. Heard(r, k, t)
  BY <1>2, <1>4 DEF CallSound, Heard
<1>8. Marked(r, k, t)
  BY <1>2, <1>4 DEF CallSound, Marked
<1>9. QED
  BY <1>1, <1>2, <1>3, <1>5, <1>6, <1>7, <1>8 DEF CallSound, k

LEMMA StreamChatIsSound ==
  ASSUME EngineSound, NEW c \in Calls, NEW j \in JobType, StreamChat(c, j), turn' = turn,
         j.tries >= 1,
         CallSound(engine.regenerate, StartOf(j, Busy \subseteq {c}), turn[c])
  PROVE  EngineSound'
<1> DEFINE lone == Busy \subseteq {c}
           k == StartOf(j, lone)
<1>1. Typed /\ Alone
  BY DEF EngineSound
<1>2. /\ k \in JobType /\ k.at = "ready" /\ k.retried = FALSE /\ k.told = FALSE
      /\ k.alone = lone
  BY StartFields
<1>3. job'[c] = k
  BY DEF StreamChat, StartOf
<1>4. ASSUME NEW d \in Calls, d # c
      PROVE  /\ job'[d] \in JobType /\ CallSound(engine.regenerate, job'[d], turn[d])
             /\ job'[d].alone => d \notin Busy
             /\ Working(job'[d]) <=> Working(job[d])
  <2> DEFINE b == job[d].alone /\ d \notin Busy
             i == [job[d] EXCEPT !.alone = b]
  <2>1. job'[d] = i
    BY <1>4 DEF StreamChat
  <2>2. job[d] \in JobType /\ turn[d] \in TurnType /\ b \in BOOLEAN
    BY <1>1 DEF Typed, JobType
  <2>3. engine.regenerate \in BOOLEAN /\ CallSound(engine.regenerate, job[d], turn[d])
    BY <1>1 DEF Typed, EngineType, EngineSound
  <2>4. b => d \notin Busy
    OBVIOUS
  <2> HIDE DEF b
  <2>5. /\ i \in JobType /\ CallSound(engine.regenerate, i, turn[d]) /\ i.alone = b
        /\ i.at = job[d].at
    BY <2>2, <2>3, LonelinessIsNotHeard
  <2> HIDE DEF i
  <2>6. QED
    BY <2>1, <2>4, <2>5 DEF Working
<1>5. /\ engine' \in EngineType /\ engine'.regenerate = engine.regenerate
      /\ engine'.usage = Nobody /\ engine'.attempts = 0
  BY <1>1 DEF StreamChat, Typed, EngineType
<1>6. Typed'
  <2>1. job' = [d \in Calls |-> job'[d]]
    BY DEF StreamChat
  <2>2. \A d \in Calls : job'[d] \in JobType
    BY <1>2, <1>3, <1>4
  <2> HIDE DEF k
  <2>3. job' \in [Calls -> JobType]
    BY <2>1, <2>2
  <2>4. QED
    BY <1>1, <1>5, <2>3 DEF Typed
<1>7. Busy' \subseteq Busy \cup {c}
  BY <1>4 DEF Busy
<1> HIDE DEF k
<1>8. Alone'
  <2> SUFFICES ASSUME NEW d \in Calls, Working(job'[d]), job'[d].alone
               PROVE  Busy' \subseteq {d}
    BY DEF Alone
  <2>1. CASE d = c
    <3>1. lone
      BY <1>2, <1>3, <2>1
    <3>2. QED
      BY <1>7, <2>1, <3>1
  <2>2. CASE d # c
    <3>1. d \notin Busy /\ Working(job[d])
      BY <1>4, <2>2
    <3>2. QED
      BY <3>1 DEF Busy
  <2>3. QED
    BY <2>1, <2>2
<1>9. ASSUME NEW d \in Calls
      PROVE  CallSound(engine.regenerate, job'[d], turn'[d]) /\ Metered(engine', job'[d], d)
  <2>1. CASE d = c
    <3>1. Metered(engine', k, c)
      BY <1>2, <1>5 DEF Metered, Tried
    <3>2. QED
      BY <1>3, <2>1, <3>1 DEF k
  <2>2. CASE d # c
    <3>1. ~(Working(job'[d]) /\ job'[d].alone)
      BY <1>4, <2>2 DEF Busy
    <3>3. Metered(engine', job'[d], d)
      BY <3>1 DEF Metered
    <3>4. QED
      BY <1>4, <2>2, <3>3
  <2>3. QED
    BY <2>1, <2>2
<1>10. QED
  BY <1>5, <1>6, <1>8, <1>9 DEF EngineSound

----------------------------------------------------------------------------
(* Every action keeps the invariant.                                       *)

LEMMA SoundCall ==
  ASSUME EngineSound, NEW c \in Calls
  PROVE  /\ engine \in EngineType /\ engine.regenerate \in BOOLEAN
         /\ engine.attempts \in Nat /\ engine.usage \in {Nobody} \cup Calls
         /\ job \in [Calls -> JobType] /\ turn \in [Calls -> TurnType]
         /\ job[c] \in JobType /\ turn[c] \in TurnType
         /\ CallSound(engine.regenerate, job[c], turn[c]) /\ Metered(engine, job[c], c)
  BY DEF EngineSound, Typed, EngineType

LEMMA CallStep ==
  ASSUME EngineSound, NEW c \in Calls, Call(c)
  PROVE  EngineSound'
<1>1. PICK x \in Timeout : turn' = [turn EXCEPT ![c].at = "waiting", ![c].rpc = x]
  BY DEF Call
<1> DEFINE k == [job[c] EXCEPT !.at = "queued"]
           u == [turn[c] EXCEPT !.at = "waiting", !.rpc = x]
<1>2. x \in Nat /\ turn[c].at = "idle"
  BY DEF Call
<1>3. k \in JobType /\ u \in TurnType /\ CallSound(engine.regenerate, k, u)
  BY <1>2, SoundCall, CallIsSound
<1>4. job' = [job EXCEPT ![c] = k] /\ engine' = engine
  BY DEF Call
<1>5. turn' = [turn EXCEPT ![c] = u]
  BY <1>1, SoundCall
<1>6. k.at = "queued"
  BY SoundCall DEF JobType
<1> HIDE DEF k, u
<1>7. ~Working(k) /\ Metered(engine', k, c)
  BY <1>6 DEF Working, Metered, Asking
<1>8. QED
  BY <1>3, <1>4, <1>5, <1>7, SoundCall, OneCallMoves

LEMMA FinishStep ==
  ASSUME EngineSound, NEW c \in Calls, Finish(c)
  PROVE  EngineSound'
<1> DEFINE k == [job[c] EXCEPT !.status = "none", !.meta = NoMeta]
           u == IF job[c].status # "ok" THEN FailTurn(turn[c], CodeOf(job[c].status))
                ELSE IF turn[c].final /\ turn[c].text # << >>
                THEN [turn[c] EXCEPT !.at = "answered", !.rpc = 0, !.meta = job[c].meta]
                ELSE FailTurn(turn[c], "engine_protocol")
<1>1. turn[c].at = "waiting" /\ job[c].at = "done"
  BY DEF Finish, Waiting
<1>2. k \in JobType /\ u \in TurnType /\ CallSound(engine.regenerate, k, u)
  BY <1>1, SoundCall, FinishIsSound
<1>3. engine' = engine
  BY DEF Finish
<1>4. job' = [job EXCEPT ![c] = k]
  BY SoundCall DEF Finish
<1>5. turn' = [turn EXCEPT ![c] = u]
  BY SoundCall, Zenon DEF Finish
<1>6. k.at = "done"
  BY <1>1, SoundCall DEF JobType
<1> HIDE DEF k, u
<1>7. ~Working(k) /\ Metered(engine', k, c)
  BY <1>6 DEF Working, Metered, Asking
<1>8. QED
  BY <1>2, <1>3, <1>4, <1>5, <1>7, SoundCall, OneCallMoves

LEMMA DeadlineStep ==
  ASSUME EngineSound, NEW c \in Calls, DeadlinePasses(c)
  PROVE  EngineSound'
<1> DEFINE u == FailTurn(turn[c], "engine_timeout")
           k == job[c]
<1>1. turn[c].at = "waiting" /\ "engine_timeout" \in Code
  BY DEF DeadlinePasses, Waiting, Code
<1>2. /\ OnTime(engine.regenerate, k) /\ Counted(engine.regenerate, k) /\ k.at # "none"
      /\ engine.regenerate /\ k.at = "close" /\ k.status = "ok" =>
           Marks(k.broke, k.chats - 1, Whole(k))
  BY <1>1, SoundCall DEF CallSound, Heard, Marked
<1>3. u \in TurnType /\ CallSound(engine.regenerate, k, u)
  BY <1>1, <1>2, SoundCall, FailIsSound
<1>4. turn' = [turn EXCEPT ![c] = u] /\ engine' = engine /\ job' = job
  BY DEF DeadlinePasses
<1>5. job' = [job EXCEPT ![c] = k]
  BY <1>4, SoundCall
<1>6. k \in JobType /\ Metered(engine', k, c)
  BY <1>4, SoundCall
<1> HIDE DEF k, u
<1>7. Working(k) => Working(job[c]) /\ (k.alone => job[c].alone)
  BY DEF k
<1>8. QED
  BY <1>3, <1>4, <1>5, <1>6, <1>7, SoundCall, OneCallMoves

LEMMA GenerateUtteranceStep ==
  ASSUME EngineSound, NEW c \in Calls, GenerateUtterance(c)
  PROVE  EngineSound'
<1> DEFINE j == job[c]
           budget == Budget(c)
           u == turn[c]
<1>1. /\ j.at = "queued" /\ turn' = turn
      /\ j \in JobType /\ u \in TurnType
      /\ CallSound(engine.regenerate, j, u)
  BY SoundCall DEF GenerateUtterance
<1>2. budget \in Nat /\ budget <= RoundTimeout
  BY SoundCall DEF Budget, Least, TurnType
<1>3. turn' = [turn EXCEPT ![c] = u]
  BY <1>1, SoundCall
<1>4. CASE budget <= MIN_BUDGET
  <2> DEFINE k == Over(j, "timeout")
  <2>1. "timeout" \in Status /\ "timeout" # "ok"
    BY DEF Status
  <2>2. k \in JobType /\ CallSound(engine.regenerate, k, u) /\ k.at = "done"
    BY <1>1, <2>1, SoundCall, OverIsSound, OverFields
  <2>3. job' = [job EXCEPT ![c] = k] /\ engine' = engine
    BY <1>4 DEF GenerateUtterance
  <2> HIDE DEF k, u
  <2>4. ~Working(k) /\ Metered(engine', k, c)
    BY <2>2 DEF Working, Metered, Asking
  <2>5. QED
    BY <1>1, <1>3, <2>2, <2>3, <2>4, SoundCall, OneCallMoves
<1>5. CASE ~(budget <= MIN_BUDGET)
  <2> DEFINE n == IF engine.regenerate THEN MaxAttempts ELSE 1
             k == [j EXCEPT !.left = budget, !.tries = n]
             lone == Busy \subseteq {c}
  <2>1. StreamChat(c, k)
    BY <1>5 DEF GenerateUtterance
  <2>2. n \in Nat /\ n >= 1 /\ (engine.regenerate => n = MaxAttempts)
    OBVIOUS
  <2>3. budget >= 2
    BY <1>2, <1>5 DEF MIN_BUDGET
  <2> HIDE DEF n, budget
  <2>4. /\ k \in JobType /\ k.left = budget /\ k.tries = n /\ k.sock = j.sock
        /\ k.limit = j.limit /\ k.next = j.next /\ k.emitted = j.emitted
        /\ k.chats = j.chats
    BY <1>1, <1>2, <2>2 DEF JobType
  <2>5. j.sock <= j.limit /\ j.next = 0 /\ j.emitted = 0 /\ j.chats = 0
    BY <1>1 DEF CallSound, OnTime, Counted
  <2>6. /\ u.at \notin {"idle", "answered"}
        /\ u.at = "waiting" => u.text = << >> /\ ~u.final
    BY <1>1 DEF CallSound, Heard
  <2>7. engine.regenerate \in BOOLEAN /\ lone \in BOOLEAN /\ MaxAttempts \in Nat
    BY SoundCall
  <2> HIDE DEF k, u, lone
  <2>8. engine.regenerate => k.chats + k.tries = MaxAttempts
    BY <2>2, <2>4, <2>5, <2>7
  <2>9. CallSound(engine.regenerate, StartOf(k, lone), u)
    BY <1>1, <1>2, <2>2, <2>3, <2>4, <2>5, <2>6, <2>7, <2>8, StartIsSound
  <2>10. QED
    BY <1>1, <2>1, <2>2, <2>4, <2>9, StreamChatIsSound DEF lone, u
<1>6. QED
  BY <1>4, <1>5

LEMMA DeliverStep ==
  ASSUME EngineSound, NEW c \in Calls, Deliver(c)
  PROVE  EngineSound'
<1> DEFINE j == job[c]
           t == turn[c]
<1>1. /\ ~engine.regenerate /\ j.at = "drain" /\ engine' = engine
      /\ j \in JobType /\ t \in TurnType /\ Metered(engine, j, c)
      /\ CallSound(FALSE, j, t)
  <2>1. ~engine.regenerate /\ j.at = "drain" /\ engine' = engine
    BY DEF Deliver
  <2>2. engine.regenerate = FALSE
    BY <2>1, SoundCall
  <2>3. QED
    BY <2>1, <2>2, SoundCall
<1>2. "ok" \in Status /\ "gone" \in Status
  BY DEF Status
<1>3. Working(j)
  BY <1>1 DEF Working
<1>4. LET k == Closing(j, "ok")
      IN k \in JobType /\ k.at = "close" /\ k.told = j.told /\ k.retried = j.retried /\ k.alone = j.alone
  BY <1>1, <1>2, ClosingFields
<1>5. Metered(engine', Closing(j, "ok"), c)
  BY <1>1, <1>3, <1>4 DEF Metered, Tried, Asking
<1>6. CASE j.next = Len(j.answer)
  <2> DEFINE k == Closing(j, "ok")
  <2>1. CallSound(FALSE, k, t)
    BY <1>1, <1>6, DeltasEnd
  <2>2. job' = [job EXCEPT ![c] = k] /\ turn' = turn
    BY <1>6 DEF Deliver
  <2>3. turn' = [turn EXCEPT ![c] = t]
    BY <2>2, SoundCall
  <2>4. engine.regenerate = FALSE
    BY <1>1, SoundCall
  <2> HIDE DEF k
  <2>5. k \in JobType /\ Metered(engine', k, c) /\ k.alone = j.alone
    BY <1>4, <1>5 DEF k
  <2>6. QED
    BY <1>1, <1>3, <2>1, <2>2, <2>3, <2>4, <2>5, SoundCall, OneCallMoves
<1>7. CASE j.next # Len(j.answer)
  <2> DEFINE candidate == FlattenSeq(SubSeq(j.answer, 1, j.next + 1))
             words == SubSeq(Cut(candidate), j.emitted + 1, Least(Len(candidate), MaxWords))
             k == IF Len(candidate) > MaxWords THEN Closing(j, "ok")
                  ELSE [j EXCEPT !.next = @ + 1, !.emitted = @ + Len(words)]
             i == IF words = << >> \/ t.at = "waiting" THEN k ELSE Over(k, "gone")
             u == IF t.at = "waiting" THEN Receive(t, words) ELSE t
  <2>1. i \in JobType /\ u \in TurnType /\ CallSound(FALSE, i, u)
    BY <1>1, <1>7, DeltaIsSound
  <2>2. Yield(c, words, k)
    BY <1>7 DEF Deliver
  <2> HIDE DEF words
  <2>3. /\ k.at = "close" \/ (k.at = "drain" /\ k.status = j.status)
        /\ k.told = j.told /\ k.retried = j.retried /\ k.alone = j.alone
    BY <1>1, <1>4 DEF JobType
  <2>4. Metered(engine', k, c)
    BY <1>1, <1>3, <1>5, <2>3 DEF Metered, Tried, Asking
  <2> HIDE DEF k
  <2>6. job' = [job EXCEPT ![c] = i] /\ turn' = [turn EXCEPT ![c] = u]
    BY <2>2 DEF Yield, Waiting
  <2>7. Metered(engine', i, c) /\ (Working(i) => Working(j) /\ (i.alone => j.alone))
    <3>1. CASE words = << >> \/ t.at = "waiting"
      BY <1>3, <2>3, <2>4, <3>1
    <3>2. CASE ~(words = << >> \/ t.at = "waiting")
      <4>1. i.at = "done"
        BY <3>2 DEF Over
      <4>2. QED
        BY <4>1 DEF Metered, Working, Asking
    <3>3. QED
      BY <3>1, <3>2
  <2>8. engine.regenerate = FALSE
    BY <1>1, SoundCall
  <2> HIDE DEF i, u
  <2>9. QED
    BY <1>1, <2>1, <2>6, <2>7, <2>8, SoundCall, OneCallMoves
<1>8. QED
  BY <1>6, <1>7

LEMMA JudgeStep ==
  ASSUME EngineSound, NEW c \in Calls, Judge(c)
  PROVE  EngineSound'
<1> DEFINE j == job[c]
           t == turn[c]
           lone == Busy \subseteq {c}
           candidate == Cut(FlattenSeq(j.answer))
           i == [j EXCEPT !.tries = @ - 1, !.broke = Breaks(candidate)]
           k == Closing(i, "ok")
           l == IF candidate = << >> \/ t.at = "waiting" THEN k ELSE Over(k, "gone")
           u == IF t.at = "waiting" THEN Receive(t, candidate) ELSE t
<1>1. /\ engine.regenerate /\ engine.regenerate = TRUE /\ j.at = "drain"
      /\ j \in JobType /\ t \in TurnType /\ Metered(engine, j, c)
      /\ CallSound(TRUE, j, t)
  <2>1. engine.regenerate /\ j.at = "drain"
    BY DEF Judge
  <2>2. engine.regenerate = TRUE
    BY <2>1, SoundCall
  <2>3. QED
    BY <2>1, <2>2, SoundCall
<1>2. /\ i.broke /\ i.tries > 0 =>
           /\ i \in JobType /\ i.tries >= 1 /\ i.tries \in Nat
           /\ StartOf(i, lone) \in JobType /\ CallSound(TRUE, StartOf(i, lone), t)
      /\ ~(i.broke /\ i.tries > 0) =>
           l \in JobType /\ u \in TurnType /\ CallSound(TRUE, l, u)
  <2>1. lone \in BOOLEAN
    OBVIOUS
  <2> HIDE DEF lone
  <2>2. QED
    BY <1>1, <2>1, JudgeIsSound
<1>3. CASE i.broke /\ i.tries > 0
  <2>1. StreamChat(c, i) /\ turn' = turn
    BY <1>3, Zenon DEF Judge
  <2>2. i \in JobType /\ i.tries >= 1 /\ CallSound(TRUE, StartOf(i, lone), t)
    BY <1>2, <1>3, Zenon
  <2> HIDE DEF i
  <2>3. CallSound(engine.regenerate, StartOf(i, lone), t)
    BY <1>1, <2>2
  <2>4. QED
    BY <2>1, <2>2, <2>3, StreamChatIsSound
<1>4. CASE ~(i.broke /\ i.tries > 0)
  <2>1. Yield(c, candidate, k) /\ engine' = engine
    BY <1>4, Zenon DEF Judge
  <2>2. job' = [job EXCEPT ![c] = l] /\ turn' = [turn EXCEPT ![c] = u]
    BY <2>1, Zenon DEF Yield, Waiting
  <2>3. l \in JobType /\ u \in TurnType /\ CallSound(TRUE, l, u)
    BY <1>2, <1>4, Zenon
  <2>4. /\ k.at = "close" /\ k.status = "ok" /\ k.told = j.told
        /\ k.retried = j.retried /\ k.alone = j.alone
    BY <1>1 DEF Closing, JobType
  <2>5. Working(j)
    BY <1>1 DEF Working
  <2> HIDE DEF k, candidate
  <2>6. Metered(engine', k, c)
    BY <1>1, <2>1, <2>4, <2>5 DEF Metered, Tried, Asking
  <2>7. Metered(engine', l, c) /\ (Working(l) => Working(j) /\ (l.alone => j.alone))
    <3>1. CASE candidate = << >> \/ t.at = "waiting"
      BY <2>4, <2>5, <2>6, <3>1
    <3>2. CASE ~(candidate = << >> \/ t.at = "waiting")
      <4>1. l.at = "done"
        BY <3>2 DEF Over, NewJob
      <4>2. QED
        BY <4>1 DEF Metered, Working, Asking
    <3>3. QED
      BY <3>1, <3>2
  <2> HIDE DEF l, u
  <2>8. CallSound(engine.regenerate, l, u)
    BY <1>1, <2>3
  <2>9. QED
    BY <2>1, <2>2, <2>3, <2>7, <2>8, SoundCall, OneCallMoves
<1>5. QED
  BY <1>3, <1>4

LEMMA CloseStep ==
  ASSUME EngineSound, NEW c \in Calls, Close(c)
  PROVE  EngineSound'
<1> DEFINE j == job[c]
           t == turn[c]
           ok == j.status = "ok"
           meta == [attempts |-> engine.attempts, usage |-> engine.usage,
                    broke |-> ok /\ j.broke,
                    regenerations |-> IF ok THEN j.chats - 1 ELSE 0]
           k == IF t.at = "waiting" THEN [Over(j, j.status) EXCEPT !.meta = meta]
                                    ELSE Over(j, "gone")
           f == t.final \/ (ok /\ t.at = "waiting")
           u == [t EXCEPT !.final = f]
<1>1. j.at = "close" /\ engine' = engine
  BY DEF Close
<1>2. k \in JobType /\ u \in TurnType /\ CallSound(engine.regenerate, k, u)
  BY <1>1, SoundCall, CloseIsSound
<1>3. job' = [job EXCEPT ![c] = k]
  BY Zenon DEF Close, Waiting
<1>4. turn' = [turn EXCEPT ![c] = u]
  <2>1. turn' = [turn EXCEPT ![c].final = turn[c].final \/ (ok /\ t.at = "waiting")]
    BY DEF Close, Waiting
  <2> HIDE DEF f
  <2>2. QED
    BY <2>1, SoundCall DEF f
<1>5. k.at = "done"
  BY DEF Over, NewJob
<1> HIDE DEF k, u
<1>6. ~Working(k) /\ Metered(engine', k, c)
  BY <1>5 DEF Working, Metered, Asking
<1>7. QED
  BY <1>1, <1>2, <1>3, <1>4, <1>6, SoundCall, OneCallMoves

(* A call that ends with an error has no metadata but its usage.           *)
LEMMA FailureIsMetered ==
  ASSUME NEW c \in Calls, NEW e, NEW d, NEW j \in JobType, NEW i \in JobType,
         NEW s \in Status, s # "ok", Metered(d, j, c), Working(j), e.usage = d.usage,
         i.told = j.told, i.alone = j.alone
  PROVE  /\ Metered(e, Closing(i, s), c)
         /\ Working(Closing(i, s)) => (Closing(i, s).alone => j.alone)
<1> DEFINE k == Closing(i, s)
<1>1. k.at = "close" /\ k.status = s /\ k.told = j.told /\ k.alone = j.alone
  BY ClosingFields
<1> HIDE DEF k
<1>2. Metered(e, k, c)
  BY <1>1 DEF Metered, Asking
<1>3. QED
  BY <1>1, <1>2 DEF k

LEMMA ConnectStep ==
  ASSUME EngineSound, NEW c \in Calls, Connect(c)
  PROVE  EngineSound'
<1> DEFINE j == job[c]
           t == turn[c]
           k == IF j.att = 0 THEN Closing(j, "timeout")
                ELSE [j EXCEPT !.at = "connecting", !.sock = j.att, !.limit = j.att]
<1>1. j.at = "ready" /\ j \in JobType /\ Working(j) /\ turn' = turn
  BY SoundCall DEF Connect, Working
<1>2. k \in JobType /\ CallSound(engine.regenerate, k, t)
  BY <1>1, SoundCall, ConnectIsSound
<1>3. job' = [job EXCEPT ![c] = k]
  BY Zenon DEF Connect
<1>4. turn' = [turn EXCEPT ![c] = t] /\ t \in TurnType
  BY <1>1, SoundCall
<1>5. /\ engine' \in EngineType /\ engine'.regenerate = engine.regenerate
      /\ engine'.usage = engine.usage /\ engine'.attempts = engine.attempts + 1
  BY SoundCall DEF Connect, EngineType
<1>6. Metered(engine', k, c) /\ (Working(k) => (k.alone => j.alone))
  <2>1. CASE j.att = 0
    <3>1. "timeout" \in Status
      BY DEF Status
    <3>2. QED
      BY <1>1, <1>5, <2>1, <3>1, SoundCall, FailureIsMetered
  <2>2. CASE j.att # 0
    <3>1. /\ k.at = "connecting" /\ k.told = j.told /\ k.retried = j.retried
          /\ k.alone = j.alone
      BY <1>1, <2>2 DEF JobType
    <3> HIDE DEF k
    <3>2. Metered(engine, j, c) /\ engine.attempts \in Nat
      BY SoundCall
    <3>3. QED
      BY <1>1, <1>5, <3>1, <3>2 DEF Metered, Tried, Asking, Working
  <2>3. QED
    BY <2>1, <2>2
<1> HIDE DEF k, t
<1>7. QED
  BY <1>1, <1>2, <1>3, <1>4, <1>5, <1>6, OneCallMoves

LEMMA ConnectionFailsStep ==
  ASSUME EngineSound, NEW c \in Calls, ConnectionFails(c)
  PROVE  EngineSound'
<1>1. PICK i : Failed(job[c], i) /\ job' = [job EXCEPT ![c] = SendFailure(i)]
  BY SoundCall DEF ConnectionFails, Failed
<1> DEFINE j == job[c]
           t == turn[c]
           k == SendFailure(i)
<1>2. /\ j.at = "connecting" /\ j \in JobType /\ Working(j) /\ turn' = turn
      /\ engine' = engine
  BY SoundCall DEF ConnectionFails, Working
<1>3. k \in JobType /\ CallSound(engine.regenerate, k, t)
  BY <1>1, <1>2, SoundCall, SendFailureIsSound
<1>4. job' = [job EXCEPT ![c] = k]
  BY <1>1
<1>5. turn' = [turn EXCEPT ![c] = t] /\ t \in TurnType
  BY <1>2, SoundCall
<1>6. Metered(engine', k, c) /\ (Working(k) => (k.alone => j.alone))
  <2>2. /\ i \in JobType /\ i.told = j.told /\ i.alone = j.alone /\ i.retried = j.retried
    BY <1>1, <1>2, FailedFields
  <2>3. CASE i.retried \/ i.att = 0
    <3>1. "unavailable" \in Status
      BY DEF Status
    <3>2. k = Closing(i, "unavailable")
      BY <2>3, Zenon DEF SendFailure
    <3>3. QED
      BY <1>2, <2>2, <3>1, <3>2, SoundCall, FailureIsMetered
  <2>4. CASE ~(i.retried \/ i.att = 0)
    <3>1. k = [i EXCEPT !.at = "ready", !.retried = TRUE, !.sock = 0, !.limit = 0]
      BY <2>4, Zenon DEF SendFailure
    <3>2. /\ k.at = "ready" /\ k.told = j.told /\ k.retried = TRUE /\ k.alone = j.alone
          /\ ~j.retried
      BY <2>2, <2>4, <3>1 DEF JobType
    <3> HIDE DEF k
    <3>3. Metered(engine, j, c)
      BY SoundCall
    <3>4. QED
      BY <1>2, <3>2, <3>3 DEF Metered, Tried, Asking
  <2>5. QED
    BY <2>3, <2>4
<1> HIDE DEF k, t
<1>7. QED
  BY <1>2, <1>3, <1>4, <1>5, <1>6, SoundCall, OneCallMoves

LEMMA HttpErrorStep ==
  ASSUME EngineSound, NEW c \in Calls, HttpError(c)
  PROVE  EngineSound'
<1>1. PICK kind \in HttpKind :
        job' = [job EXCEPT ![c] = Closing([job[c] EXCEPT !.sent = @ + 1], kind)]
  BY DEF HttpError
<1> DEFINE j == job[c]
           t == turn[c]
           n == j.sent + 1
           i == [j EXCEPT !.sent = n]
           k == Closing(i, kind)
<1>2. /\ j.at = "connecting" /\ j \in JobType /\ Working(j) /\ turn' = turn
      /\ engine' = engine /\ j.at \in Asking
  BY SoundCall DEF HttpError, Working, Asking
<1>3. kind \in Status /\ kind # "ok"
  BY DEF HttpKind, Status
<1>4. n \in Nat
  BY <1>2 DEF JobType
<1>5. job' = [job EXCEPT ![c] = k]
  BY <1>1
<1> HIDE DEF n
<1>6. i \in JobType /\ i.told = j.told /\ i.alone = j.alone /\ i.chats = j.chats
  BY <1>2, <1>4 DEF JobType
<1> HIDE DEF i
<1>7. k \in JobType /\ CallSound(engine.regenerate, k, t)
  BY <1>2, <1>3, <1>6, SoundCall, FailedClosing
<1>8. Metered(engine', k, c) /\ (Working(k) => (k.alone => j.alone))
  BY <1>2, <1>3, <1>6, SoundCall, FailureIsMetered
<1>9. turn' = [turn EXCEPT ![c] = t] /\ t \in TurnType
  BY <1>2, SoundCall
<1> HIDE DEF k, t
<1>10. QED
  BY <1>2, <1>5, <1>7, <1>8, <1>9, SoundCall, OneCallMoves

LEMMA RespondStep ==
  ASSUME EngineSound, NEW c \in Calls, Respond(c)
  PROVE  EngineSound'
<1> DEFINE j == job[c]
           t == turn[c]
           k == [j EXCEPT !.at = "reading", !.sock = j.limit, !.sent = @ + 1]
<1>1. /\ j.at = "connecting" /\ j \in JobType /\ Working(j) /\ turn' = turn
      /\ engine' = engine
  BY SoundCall DEF Respond, Working
<1>2. k \in JobType /\ CallSound(engine.regenerate, k, t)
  BY <1>1, SoundCall, RespondIsSound
<1>3. job' = [job EXCEPT ![c] = k]
  BY SoundCall DEF Respond
<1>4. turn' = [turn EXCEPT ![c] = t] /\ t \in TurnType
  BY <1>1, SoundCall
<1>5. /\ k.at = "reading" /\ k.told = j.told /\ k.retried = j.retried
      /\ k.alone = j.alone
  BY <1>1 DEF JobType
<1> HIDE DEF k, t
<1>6. Metered(engine', k, c)
  BY <1>1, <1>5, SoundCall DEF Metered, Tried, Asking, Working
<1>7. QED
  BY <1>1, <1>2, <1>3, <1>4, <1>5, <1>6, SoundCall, OneCallMoves

LEMMA ReadLineStep ==
  ASSUME EngineSound, NEW c \in Calls, ReadLine(c)
  PROVE  EngineSound'
<1>1. PICK usage \in BOOLEAN :
        /\ job' = [job EXCEPT ![c].sock = job[c].limit, ![c].told = @ \/ usage]
        /\ engine' = [engine EXCEPT !.usage = IF usage THEN c ELSE @]
  BY DEF ReadLine
<1> DEFINE j == job[c]
           t == turn[c]
           told == j.told \/ usage
           k == [j EXCEPT !.sock = j.limit, !.told = told]
           whose == IF usage THEN c ELSE engine.usage
<1>2. j.at = "reading" /\ j \in JobType /\ Working(j) /\ turn' = turn
  BY SoundCall DEF ReadLine, Working
<1>3. told \in BOOLEAN /\ (told <=> j.told \/ usage)
  BY <1>2 DEF JobType
<1>4. job' = [job EXCEPT ![c] = k]
  BY <1>1, SoundCall, Zenon
<1>8. engine' = [engine EXCEPT !.usage = whose]
  BY <1>1
<1>9. whose \in {Nobody} \cup Calls
  BY SoundCall
<1>11. j.alone => whose = IF told THEN c ELSE Nobody
  BY <1>2, SoundCall DEF Metered
<1> HIDE DEF told, whose
<1>5. k \in JobType /\ CallSound(engine.regenerate, k, t)
  BY <1>2, <1>3, SoundCall, ReadLineIsSound
<1>6. k.at = "reading" /\ k.retried = j.retried /\ k.alone = j.alone /\ k.told = told
  BY <1>2, <1>3 DEF JobType
<1>7. turn' = [turn EXCEPT ![c] = t] /\ t \in TurnType
  BY <1>2, SoundCall
<1> HIDE DEF k, t
<1>12. /\ engine' \in EngineType /\ engine'.regenerate = engine.regenerate
       /\ engine'.usage = whose /\ engine'.attempts = engine.attempts
  BY <1>8, <1>9, SoundCall DEF EngineType
<1>13. j.alone => engine.attempts = Tried(k)
  BY <1>2, <1>6, SoundCall DEF Metered, Tried
<1>14. Metered(engine', k, c)
  BY <1>6, <1>11, <1>12, <1>13 DEF Metered
<1>15. QED
  BY <1>2, <1>4, <1>5, <1>6, <1>7, <1>12, <1>14, OneCallMoves

LEMMA ReadAllStep ==
  ASSUME EngineSound, NEW c \in Calls, ReadAll(c)
  PROVE  EngineSound'
<1>1. PICK a \in Answers :
        job' = [job EXCEPT ![c].at = "drain", ![c].sock = 0, ![c].limit = 0,
                           ![c].sent = 0, ![c].mute = FALSE, ![c].answer = a]
  BY DEF ReadAll
<1> DEFINE j == job[c]
           t == turn[c]
           k == [j EXCEPT !.at = "drain", !.sock = 0, !.limit = 0, !.sent = 0,
                          !.mute = FALSE, !.answer = a]
<1>2. /\ j.at = "reading" /\ j \in JobType /\ Working(j) /\ turn' = turn
      /\ engine' = engine
  BY SoundCall DEF ReadAll, Working
<1>3. k \in JobType /\ CallSound(engine.regenerate, k, t)
  BY <1>2, SoundCall, ReadAllIsSound
<1>4. job' = [job EXCEPT ![c] = k]
  BY <1>1, SoundCall, Zenon
<1>5. turn' = [turn EXCEPT ![c] = t] /\ t \in TurnType
  BY <1>2, SoundCall
<1>6. /\ k.at = "drain" /\ k.told = j.told /\ k.retried = j.retried
      /\ k.alone = j.alone
  BY <1>2 DEF JobType
<1> HIDE DEF k, t
<1>7. Metered(engine', k, c)
  BY <1>2, <1>6, SoundCall DEF Metered, Tried, Working
<1>8. QED
  BY <1>2, <1>3, <1>4, <1>5, <1>6, <1>7, SoundCall, OneCallMoves

(* What three failures have in common: the call ends without an answer,    *)
(* and the worker goes on to close it, or is free.                         *)
LEMMA FailureStep ==
  ASSUME EngineSound, NEW c \in Calls, NEW s \in Status, s # "ok",
         job[c].at \in Asking, engine' = engine, turn' = turn,
         \/ job' = [job EXCEPT ![c] = Closing(@, s)]
         \/ job' = [job EXCEPT ![c] = Over(@, s)]
  PROVE  EngineSound'
<1> DEFINE j == job[c]
           t == turn[c]
<1>1. j \in JobType /\ Working(j) /\ j.at \notin {"none", "done"}
  BY SoundCall DEF Working, Asking
<1>2. turn' = [turn EXCEPT ![c] = t] /\ t \in TurnType
  BY SoundCall
<1>3. CASE job' = [job EXCEPT ![c] = Closing(@, s)]
  <2> DEFINE k == Closing(j, s)
  <2>1. job' = [job EXCEPT ![c] = k]
    BY <1>3
  <2>2. k \in JobType /\ CallSound(engine.regenerate, k, t)
    BY SoundCall, FailedClosing
  <2>3. Metered(engine', k, c) /\ (Working(k) => (k.alone => j.alone))
    BY <1>1, SoundCall, FailureIsMetered
  <2> HIDE DEF k, t
  <2>4. QED
    BY <1>1, <1>2, <2>1, <2>2, <2>3, SoundCall, OneCallMoves
<1>4. CASE job' = [job EXCEPT ![c] = Over(@, s)]
  <2> DEFINE k == Over(j, s)
  <2>1. job' = [job EXCEPT ![c] = k]
    BY <1>4
  <2>2. k \in JobType /\ CallSound(engine.regenerate, k, t)
    BY <1>1, SoundCall, OverIsSound
  <2>3. k.at = "done"
    BY <1>1, OverFields
  <2> HIDE DEF k, t
  <2>4. ~Working(k) /\ Metered(engine', k, c)
    BY <2>3 DEF Working, Metered, Asking
  <2>5. QED
    BY <1>1, <1>2, <2>1, <2>2, <2>4, SoundCall, OneCallMoves
<1>5. QED
  BY <1>3, <1>4

LEMMA ReadFailsStep ==
  ASSUME EngineSound, NEW c \in Calls, ReadFails(c)
  PROVE  EngineSound'
<1>1. "unavailable" \in Status /\ "unknown" \in Status /\ job[c].at \in Asking
  BY DEF ReadFails, Status, Asking
<1>2. CASE job' = [job EXCEPT ![c] = Closing(@, "unavailable")]
  BY <1>1, <1>2, FailureStep DEF ReadFails
<1>3. CASE job' = [job EXCEPT ![c] = Over(@, "unknown")]
  BY <1>1, <1>3, FailureStep DEF ReadFails
<1>4. QED
  BY <1>2, <1>3 DEF ReadFails

LEMMA SocketTimeoutStep ==
  ASSUME EngineSound, NEW c \in Calls, SocketTimeout(c)
  PROVE  EngineSound'
<1>1. "timeout" \in Status /\ job[c].at \in Asking
  BY DEF SocketTimeout, Status, Asking
<1>2. QED
  BY <1>1, FailureStep DEF SocketTimeout

(* Time passes for all calls at once, and nobody starts or ends.           *)
LEMMA TickStep ==
  ASSUME EngineSound, Tick
  PROVE  EngineSound'
<1> DEFINE r == engine.regenerate
<1>1. engine' = engine
  BY DEF Tick
<1>2. \A c \in Calls : job'[c] = IF Working(job[c]) THEN Later(r, job[c]) ELSE job[c]
  BY DEF Tick, Later
<1>3. \A c \in Calls : turn'[c] = IF turn[c].at = "waiting"
                                  THEN [turn[c] EXCEPT !.rpc = Before(@)] ELSE turn[c]
  BY DEF Tick, Waiting
<1>4. ASSUME NEW c \in Calls
      PROVE  /\ job'[c] \in JobType /\ turn'[c] \in TurnType
             /\ CallSound(r, job'[c], turn'[c])
  <2> DEFINE k == IF Working(job[c]) THEN Later(r, job[c]) ELSE job[c]
             u == IF turn[c].at = "waiting"
                  THEN [turn[c] EXCEPT !.rpc = Before(@)] ELSE turn[c]
  <2>1. job[c].at \in {"connecting", "reading"} => job[c].sock > 0
    BY DEF Tick
  <2>2. k \in JobType /\ u \in TurnType /\ CallSound(r, k, u)
    BY <2>1, SoundCall, TickIsSound
  <2>3. job'[c] = k /\ turn'[c] = u
    BY <1>2, <1>3
  <2> HIDE DEF k, u
  <2>4. QED
    BY <2>2, <2>3
<1>5. Typed'
  <2>1. /\ job' \in [Calls -> JobType]
    <3>1. job' = [c \in Calls |-> job'[c]]
      BY DEF Tick
    <3>2. QED
      BY <1>4, <3>1
  <2>2. turn' \in [Calls -> TurnType]
    <3>1. turn' = [c \in Calls |-> turn'[c]]
      BY DEF Tick
    <3>2. QED
      BY <1>4, <3>1
  <2>3. QED
    BY <1>1, <2>1, <2>2 DEF EngineSound, Typed
<1>6. ASSUME NEW c \in Calls
      PROVE  /\ job'[c].at = job[c].at /\ job'[c].alone = job[c].alone
             /\ job'[c].told = job[c].told /\ job'[c].retried = job[c].retried
             /\ job'[c].status = job[c].status
  <2>1. job[c] \in JobType /\ r \in BOOLEAN
    BY SoundCall
  <2> HIDE DEF r
  <2>2. CASE Working(job[c])
    <3>1. job'[c] = Later(r, job[c])
      BY <1>2, <2>2
    <3>2. QED
      BY <2>1, <3>1, LaterFields
  <2>3. CASE ~Working(job[c])
    BY <1>2, <2>3
  <2>4. QED
    BY <2>2, <2>3
<1>7. \A c \in Calls : Working(job'[c]) <=> Working(job[c])
  BY <1>6 DEF Working
<1>8. Busy' = Busy
  BY <1>7 DEF Busy
<1>9. Alone'
  BY <1>6, <1>7, <1>8 DEF EngineSound, Alone
<1>10. \A c \in Calls : Metered(engine', job'[c], c)
  <2> SUFFICES ASSUME NEW c \in Calls
               PROVE  Metered(engine', job'[c], c)
    OBVIOUS
  <2>1. Metered(engine, job[c], c)
    BY SoundCall
  <2>2. Tried(job'[c]) = Tried(job[c])
    BY <1>6 DEF Tried
  <2>3. QED
    BY <1>1, <1>6, <1>7, <2>1, <2>2 DEF Metered
<1>11. QED
  BY <1>1, <1>4, <1>5, <1>9, <1>10 DEF EngineSound

----------------------------------------------------------------------------
LEMMA InitSound == Init => EngineSound
<1> SUFFICES ASSUME Init
             PROVE  EngineSound
  OBVIOUS
<1> DEFINE t == [at |-> "idle", rpc |-> 0, text |-> << >>, final |-> FALSE,
                 code |-> "none", meta |-> NoMeta]
<1>1. NoMeta \in MetaType
  BY DEF NoMeta, MetaType
<1>2. /\ NewJob.at = "none" /\ NewJob.left = 0 /\ NewJob.sock = 0 /\ NewJob.limit = 0
      /\ NewJob.sent = 0 /\ NewJob.chats = 0 /\ NewJob.next = 0 /\ NewJob.emitted = 0
  BY DEF NewJob
<1>3. NewJob \in JobType
  <2>1. PICK e \in Given : e = << >>
    BY GivenIsText
  <2> DEFINE m == NoMeta
             i == [at |-> "none", left |-> 0, att |-> 0, sock |-> 0, limit |-> 0,
                   tries |-> 0, chats |-> 0, sent |-> 0, mute |-> FALSE,
                   retried |-> FALSE, told |-> FALSE, answer |-> e, next |-> 0,
                   emitted |-> 0, broke |-> FALSE, status |-> "none",
                   meta |-> m, alone |-> TRUE, overrun |-> FALSE]
  <2>2. m \in MetaType
    BY <1>1
  <2> HIDE DEF m
  <2>3. i \in JobType
    BY <2>2 DEF JobType, Place, Status
  <2>4. NewJob = i
    BY <2>1, Zenon DEF NewJob, m
  <2>5. QED
    BY <2>3, <2>4, Zenon
<1>4. t \in TurnType
  <2>1. PICK e \in Text : e = << >>
    BY GivenIsText
  <2> DEFINE m == NoMeta
             u == [at |-> "idle", rpc |-> 0, text |-> e, final |-> FALSE,
                   code |-> "none", meta |-> m]
  <2>2. m \in MetaType
    BY <1>1
  <2> HIDE DEF m
  <2>3. u \in TurnType
    BY <2>2 DEF TurnType, Code
  <2>4. t = u
    BY <2>1, Zenon DEF t, m
  <2>5. QED
    BY <2>3, <2>4, Zenon
<1>5. t.at = "idle" /\ t.text = << >> /\ t.final = FALSE
  OBVIOUS
<1>6. ASSUME NEW r \in BOOLEAN
      PROVE  CallSound(r, NewJob, t)
  <2> HIDE DEF t
  <2>1. OnTime(r, NewJob)
    BY <1>2 DEF OnTime, Working, Running, Asking
  <2>2. Counted(r, NewJob)
    BY <1>2 DEF Counted
  <2>3. Heard(r, NewJob, t)
    BY <1>2, <1>5 DEF Heard, Asking
  <2>4. Marked(r, NewJob, t)
    BY <1>2, <1>5 DEF Marked
  <2>5. QED
    BY <2>1, <2>2, <2>3, <2>4 DEF CallSound
<1>7. engine \in EngineType
  BY DEF Init, EngineType
<1>8. job = [c \in Calls |-> NewJob] /\ turn = [c \in Calls |-> t]
  BY Zenon DEF Init
<1> HIDE DEF t
<1>9. Typed
  BY <1>3, <1>4, <1>7, <1>8 DEF Typed
<1>10. Alone
  BY <1>2, <1>8 DEF Alone, Working
<1>11. \A c \in Calls : Metered(engine, job[c], c)
  BY <1>2, <1>8 DEF Metered, Working, Asking
<1>12. \A c \in Calls : CallSound(engine.regenerate, job[c], turn[c])
  BY <1>6, <1>7, <1>8 DEF EngineType
<1>13. QED
  BY <1>9, <1>10, <1>11, <1>12 DEF EngineSound

LEMMA NextKeepsSound == EngineSound /\ [Next]_vars => EngineSound'
<1> SUFFICES ASSUME EngineSound, [Next]_vars
             PROVE  EngineSound'
  OBVIOUS
<1>1. CASE Tick
  BY <1>1, TickStep
<1>2. ASSUME NEW c \in Calls, Generate(c)
      PROVE  EngineSound'
  BY <1>2, CallStep, FinishStep, DeadlineStep DEF Generate
<1>3. ASSUME NEW c \in Calls, Serve(c)
      PROVE  EngineSound'
  BY <1>3, GenerateUtteranceStep, DeliverStep, JudgeStep, CloseStep, ConnectStep DEF Serve
<1>4. ASSUME NEW c \in Calls, Provide(c)
      PROVE  EngineSound'
  BY <1>4, ConnectionFailsStep, HttpErrorStep, RespondStep, ReadLineStep, ReadAllStep,
     ReadFailsStep DEF Provide
<1>5. ASSUME NEW c \in Calls, SocketTimeout(c)
      PROVE  EngineSound'
  BY <1>5, SocketTimeoutStep
<1>6. CASE UNCHANGED vars
  BY <1>6 DEF vars, EngineSound, Typed, Alone, Busy
<1>7. QED
  BY <1>1, <1>2, <1>3, <1>4, <1>5, <1>6 DEF Next

(* The strengthening holds of every behaviour: the budgets of a call, the  *)
(* place in the stream of deltas, what generate has heard of them, the     *)
(* verdict on its way to the metadata and the attributes of the shared     *)
(* client fit together at every step of the servicer, of the HTTP client   *)
(* and of generate, for any number of calls and workers.                   *)
THEOREM EngineIsSound == EngineSpec => []EngineSound
<1>1. Init => EngineSound
  BY InitSound
<1>2. EngineSound /\ [Next]_vars => EngineSound'
  BY NextKeepsSound
<1>3. QED
  BY <1>1, <1>2, PTL DEF EngineSpec

(* Types, and with them the three bounds: of the words emitted; of the     *)
(* wait for one operation; and of the requests of one stream_chat: a       *)
(* second reaches the provider only after it has closed the connection of  *)
(* the first without a word.                                               *)
THEOREM EngineKeepsItsBounds == EngineSpec => []EngineTypeOK
<1>1. EngineSound => EngineTypeOK
  <2> SUFFICES ASSUME EngineSound
               PROVE  EngineTypeOK
    OBVIOUS
  <2>1. engine \in [regenerate : BOOLEAN, attempts : Nat, usage : {Nobody} \cup Calls]
    BY DEF EngineSound, Typed, EngineType
  <2>2. ASSUME NEW c \in Calls
        PROVE  /\ job[c].left <= RoundTimeout /\ job[c].sock <= job[c].limit
               /\ job[c].emitted <= MaxWords
               /\ job[c].sent \in 0..(IF job[c].mute THEN 2 ELSE 1)
               /\ job[c].at \in {"ready", "connecting"} /\ job[c].sent > 0 => job[c].mute
               /\ turn[c].at \in {"idle", "waiting", "answered", "failed"}
    <3>1. OnTime(engine.regenerate, job[c]) /\ Counted(engine.regenerate, job[c])
      BY SoundCall DEF CallSound
    <3>2. /\ job[c].at \in Place /\ job[c].sent \in Nat /\ job[c].emitted \in Nat
          /\ MaxWords \in Nat
      BY SoundCall DEF JobType
    <3>3. /\ job[c].sent <= IF job[c].mute THEN 2 ELSE 1
          /\ job[c].at \in {"ready", "connecting"} /\ job[c].sent > 0 => job[c].mute
      BY <3>1, <3>2 DEF OnTime, Place, Asking
    <3>4. job[c].emitted <= MaxWords
      BY <3>1, <3>2, SoundCall DEF Counted
    <3>5. turn[c].at \in {"idle", "waiting", "answered", "failed"}
      BY SoundCall DEF TurnType
    <3>6. job[c].left <= RoundTimeout /\ job[c].sock <= job[c].limit
      BY <3>1 DEF OnTime
    <3>7. QED
      BY <3>2, <3>3, <3>4, <3>5, <3>6
  <2>3. QED
    BY <2>1, <2>2 DEF EngineTypeOK
<1>2. QED
  BY <1>1, EngineIsSound, PTL

(* generate returns whole answers only: nothing that the deadline cut off, *)
(* nothing of a discarded candidate, and never without the final marker,   *)
(* however the provider cuts its text into deltas.                         *)
THEOREM AnswersAreWhole == EngineSpec => []WholeAnswersOnly
<1>1. EngineSound => WholeAnswersOnly
  BY SoundCall DEF WholeAnswersOnly, Answered, CallSound, Heard, Whole
<1>2. QED
  BY <1>1, EngineIsSound, PTL

(* Breaks of character are delivered when the attempts are used up, marked *)
(* in the metadata, and nothing else is marked.                            *)
THEOREM BreaksOfCharacterAreMarked == EngineSpec => []BreaksAreMarked
<1>1. EngineSound => BreaksAreMarked
  <2> SUFFICES ASSUME EngineSound, NEW c \in Calls, Answered(c), engine.regenerate
               PROVE  /\ turn[c].meta.broke <=> Breaks(turn[c].text)
                      /\ turn[c].meta.broke =>
                           turn[c].meta.regenerations = MaxAttempts - 1
    BY DEF BreaksAreMarked
  <2>1. Marks(turn[c].meta.broke, turn[c].meta.regenerations, turn[c].text)
    BY SoundCall DEF CallSound, Marked, Answered
  <2>2. QED
    BY <2>1 DEF Marks
<1>2. QED
  BY <1>1, EngineIsSound, PTL

----------------------------------------------------------------------------
(* What a step may not do.  Of what a step of one call does to another,    *)
(* and time to all, nothing matters here.                                  *)

Aside(j, k) == k.at = j.at /\ k.status = j.status /\ k.chats = j.chats

(* A step of a call that neither closes it nor starts it anew; a timeout   *)
(* is only told when the time of the attempt is up.                        *)
Quiet(j, k) ==
  /\ j.at # "close" /\ k.at = "close" /\ k.status = "timeout" => j.att = 0
  /\ j.at = "close" => k.at = "close"
  /\ k.chats > j.chats => j.chats = 0

LEMMA AsideIsQuiet ==
  ASSUME NEW j \in JobType, NEW k, Aside(j, k)
  PROVE  Quiet(j, k)
  BY DEF Aside, Quiet, JobType

LEMMA StreamChatMoves ==
  ASSUME EngineSound, NEW c \in Calls, NEW j \in JobType, j.tries >= 1, StreamChat(c, j)
  PROVE  /\ job'[c].at = "ready" /\ job'[c].chats = j.chats + 1
         /\ \A d \in Calls \ {c} : Aside(job[d], job'[d])
<1> DEFINE lone == Busy \subseteq {c}
<1>1. job'[c] = StartOf(j, lone) /\ lone \in BOOLEAN
  BY DEF StreamChat, StartOf
<1> HIDE DEF lone
<1>2. job'[c].at = "ready" /\ job'[c].chats = j.chats + 1
  BY <1>1 DEF StartOf, JobType
<1>3. ASSUME NEW d \in Calls \ {c}
      PROVE  Aside(job[d], job'[d])
  <2>1. job'[d] = [job[d] EXCEPT !.alone = @ /\ d \notin Busy]
    BY DEF StreamChat
  <2>2. job[d] \in JobType
    BY SoundCall
  <2>3. QED
    BY <2>1, <2>2 DEF Aside, JobType
<1>4. QED
  BY <1>2, <1>3

LEMMA TickMoves ==
  ASSUME EngineSound, NEW c \in Calls, Tick
  PROVE  Aside(job[c], job'[c])
<1> DEFINE r == engine.regenerate
<1>1. job'[c] = IF Working(job[c]) THEN Later(r, job[c]) ELSE job[c]
  BY DEF Tick, Later
<1>2. job[c] \in JobType /\ r \in BOOLEAN
  BY SoundCall
<1> HIDE DEF r
<1>3. QED
  BY <1>1, <1>2, LaterFields DEF Aside

LEMMA TakingMoves ==
  ASSUME EngineSound, NEW c \in Calls, GenerateUtterance(c)
  PROVE  /\ Quiet(job[c], job'[c])
         /\ \A d \in Calls \ {c} : Aside(job[d], job'[d])
<1> DEFINE j == job[c]
           budget == Budget(c)
<1>1. j.at = "queued" /\ j \in JobType /\ j.chats = 0
  BY SoundCall DEF GenerateUtterance, CallSound, OnTime
<1>2. CASE budget <= MIN_BUDGET
  <2>1. job' = [job EXCEPT ![c] = Over(j, "timeout")]
    BY <1>2 DEF GenerateUtterance
  <2>3. job'[c].at = "done" /\ job'[c].chats = 0
    BY <2>1, SoundCall DEF Over, NewJob
  <2>4. QED
    BY <1>1, <2>1, <2>3, SoundCall DEF Quiet, Aside
<1>3. CASE ~(budget <= MIN_BUDGET)
  <2> DEFINE n == IF engine.regenerate THEN MaxAttempts ELSE 1
             k == [j EXCEPT !.left = budget, !.tries = n]
  <2>1. StreamChat(c, k)
    BY <1>3 DEF GenerateUtterance
  <2>2. n \in Nat /\ n >= 1
    OBVIOUS
  <2>3. budget \in Nat
    BY SoundCall DEF Budget, Least, TurnType
  <2> HIDE DEF n, budget
  <2>4. k \in JobType /\ k.tries >= 1
    BY <1>1, <2>2, <2>3 DEF JobType
  <2> HIDE DEF k
  <2>5. job'[c].at = "ready" /\ \A d \in Calls \ {c} : Aside(job[d], job'[d])
    BY <2>1, <2>4, StreamChatMoves
  <2>6. QED
    BY <1>1, <2>5 DEF Quiet
<1>4. QED
  BY <1>2, <1>3

(* yield of one call, after which its candidate is accepted or the loop    *)
(* goes on.                                                                *)
LEMMA YieldMoves ==
  ASSUME EngineSound, NEW c \in Calls, NEW words, NEW k, Yield(c, words, k), job[c].at # "close",
         k.at = "close" => k.status = "ok", k.chats = job[c].chats
  PROVE  /\ Quiet(job[c], job'[c]) /\ job'[c].chats <= job[c].chats
         /\ \A d \in Calls \ {c} : Aside(job[d], job'[d])
<1>1. job[c].chats \in Nat
  BY SoundCall DEF JobType
<1>2. job' = [job EXCEPT ![c] = IF words = << >> \/ Waiting(c) THEN k ELSE Over(k, "gone")]
  BY DEF Yield
<1>4. Over(k, "gone").at = "done" /\ Over(k, "gone").chats = 0
  BY DEF Over, NewJob
<1>5. job'[c] = k \/ job'[c] = Over(k, "gone")
  BY <1>2, SoundCall
<1>6. QED
  BY <1>1, <1>2, <1>4, <1>5, SoundCall DEF Quiet, Aside

LEMMA DeliverMoves ==
  ASSUME EngineSound, NEW c \in Calls, Deliver(c)
  PROVE  /\ Quiet(job[c], job'[c])
         /\ \A d \in Calls \ {c} : Aside(job[d], job'[d])
<1> DEFINE j == job[c]
           candidate == FlattenSeq(SubSeq(j.answer, 1, j.next + 1))
           words == SubSeq(Cut(candidate), j.emitted + 1, Least(Len(candidate), MaxWords))
           k == Closing(j, "ok")
           l == [j EXCEPT !.next = @ + 1, !.emitted = @ + Len(words)]
           i == IF Len(candidate) > MaxWords THEN k ELSE l
<1>1. j.at = "drain" /\ j \in JobType /\ j.chats \in Nat /\ j.next \in Nat
  BY SoundCall DEF Deliver, JobType
<1>2. "ok" \in Status
  BY DEF Status
<1>3. k \in JobType /\ k.at = "close" /\ k.status = "ok" /\ k.chats = j.chats
  BY <1>1, <1>2, ClosingFields
<1>4. CASE j.next = Len(j.answer)
  <2>1. job' = [job EXCEPT ![c] = k]
    BY <1>4 DEF Deliver
  <2> HIDE DEF k
  <2>2. job'[c] = k /\ \A d \in Calls \ {c} : job'[d] = job[d]
    BY <2>1, SoundCall
  <2>3. QED
    BY <1>1, <1>3, <2>2 DEF Quiet, Aside
<1>5. CASE j.next # Len(j.answer)
  <2>1. Yield(c, words, i)
    BY <1>5 DEF Deliver
  <2>2. l.at = "drain" /\ l.chats = j.chats
    BY <1>1 DEF JobType
  <2> HIDE DEF k, l, words
  <2>3. (i.at = "close" => i.status = "ok") /\ i.chats = j.chats
    BY <1>3, <2>2
  <2> HIDE DEF i
  <2>4. QED
    BY <1>1, <2>1, <2>3, YieldMoves
<1>6. QED
  BY <1>4, <1>5

(* Only a verdict starts a call anew, and only one of the attempts but the *)
(* last.                                                                   *)
LEMMA JudgeMoves ==
  ASSUME EngineSound, NEW c \in Calls, Judge(c)
  PROVE  /\ job[c].at = "drain" /\ engine.regenerate
         /\ job'[c].at = "close" => job'[c].status = "ok"
         /\ job'[c].chats > job[c].chats => job[c].tries >= 2
         /\ \A d \in Calls \ {c} : Aside(job[d], job'[d])
<1> DEFINE j == job[c]
           candidate == Cut(FlattenSeq(j.answer))
           n == j.tries - 1
           b == Breaks(candidate)
           i == [j EXCEPT !.tries = n, !.broke = b]
           k == Closing(i, "ok")
<1>1. engine.regenerate /\ j.at = "drain" /\ j \in JobType /\ j.chats \in Nat
  BY SoundCall DEF Judge, JobType
<1>2. j.tries >= 1
  BY <1>1, SoundCall DEF CallSound, OnTime, Running
<1>3. n \in Nat /\ b \in BOOLEAN
  BY <1>1, <1>2 DEF JobType, Breaks
<1> HIDE DEF b
<1>4. i \in JobType /\ i.tries = n /\ i.broke = b /\ i.chats = j.chats
  <2> HIDE DEF n
  <2>1. QED
    BY <1>1, <1>3 DEF JobType
<1>5. CASE b /\ n > 0
  <2>1. StreamChat(c, i)
    <3>1. i.broke /\ i.tries > 0
      BY <1>4, <1>5
    <3>2. QED
      BY <3>1, Zenon DEF Judge, b, i, n
  <2>2. i.tries >= 1
    BY <1>3, <1>4, <1>5
  <2> HIDE DEF i
  <2>3. job'[c].at = "ready" /\ \A d \in Calls \ {c} : Aside(job[d], job'[d])
    BY <1>4, <2>1, <2>2, StreamChatMoves
  <2>4. j.tries >= 2
    BY <1>1, <1>5 DEF JobType
  <2>5. QED
    BY <1>1, <2>3, <2>4
<1>6. CASE ~(b /\ n > 0)
  <2>1. Yield(c, candidate, k)
    <3>1. ~(i.broke /\ i.tries > 0)
      BY <1>4, <1>6
    <3>2. QED
      BY <3>1, Zenon DEF Judge, b, i, n, k
  <2>2. "ok" \in Status
    BY DEF Status
  <2> HIDE DEF i
  <2>3. k.status = "ok" /\ k.chats = j.chats
    BY <1>4, <2>2, ClosingFields
  <2> HIDE DEF k, candidate
  <2>4. /\ Quiet(job[c], job'[c]) /\ job'[c].chats <= job[c].chats
        /\ \A d \in Calls \ {c} : Aside(job[d], job'[d])
    BY <1>1, <2>1, <2>3, YieldMoves
  <2>5. job'[c] = k \/ job'[c] = Over(k, "gone")
    BY <2>1, SoundCall DEF Yield
  <2>6. Over(k, "gone").at = "done" /\ Over(k, "gone").chats = 0
    BY DEF Over, NewJob
  <2>7. QED
    BY <1>1, <2>3, <2>4, <2>5, <2>6
<1>7. QED
  BY <1>5, <1>6

LEMMA CloseMoves ==
  ASSUME EngineSound, NEW c \in Calls, Close(c)
  PROVE  /\ job'[c].at = "done" /\ job'[c].chats = 0
         /\ \A d \in Calls \ {c} : Aside(job[d], job'[d])
<1> DEFINE j == job[c]
           ok == j.status = "ok"
           meta == [attempts |-> engine.attempts, usage |-> engine.usage,
                    broke |-> ok /\ j.broke,
                    regenerations |-> IF ok THEN j.chats - 1 ELSE 0]
           k == IF Waiting(c) THEN [Over(j, j.status) EXCEPT !.meta = meta]
                              ELSE Over(j, "gone")
<1>1. job' = [job EXCEPT ![c] = k]
  BY Zenon DEF Close
<1> HIDE DEF meta
<1>2. k.at = "done" /\ k.chats = 0
  BY DEF Over, NewJob
<1> HIDE DEF k
<1>3. QED
  BY <1>1, <1>2, SoundCall DEF Aside

(* generate changes of the work for a call nothing that matters here.      *)
LEMMA GenerateMoves ==
  ASSUME EngineSound, NEW c \in Calls, Generate(c)
  PROVE  /\ Quiet(job[c], job'[c])
         /\ \A d \in Calls \ {c} : Aside(job[d], job'[d])
<1>1. job[c] \in JobType /\ job[c].chats \in Nat
  BY SoundCall DEF JobType
<1>2. CASE Call(c)
  <2>1. job[c].at = "none"
    BY <1>2, SoundCall DEF Call, CallSound, Heard
  <2>2. job'[c].at = "queued" /\ job'[c].chats = job[c].chats
    BY <1>2, <1>1, SoundCall DEF Call, JobType
  <2>3. \A d \in Calls \ {c} : job'[d] = job[d]
    BY <1>2, SoundCall DEF Call
  <2>4. QED
    BY <1>1, <2>1, <2>2, <2>3 DEF Quiet, Aside
<1>3. CASE Finish(c)
  <2>1. job[c].at = "done"
    BY <1>3 DEF Finish
  <2>2. job'[c].at = "done" /\ job'[c].chats = job[c].chats
    BY <1>3, <1>1, <2>1, SoundCall DEF Finish, JobType
  <2>3. \A d \in Calls \ {c} : job'[d] = job[d]
    BY <1>3, SoundCall DEF Finish
  <2>4. QED
    BY <1>1, <2>1, <2>2, <2>3 DEF Quiet, Aside
<1>4. CASE DeadlinePasses(c)
  <2>1. job' = job
    BY <1>4 DEF DeadlinePasses
  <2>2. QED
    BY <1>1, <2>1 DEF Quiet, Aside
<1>5. QED
  BY <1>2, <1>3, <1>4 DEF Generate

LEMMA QuietMove ==
  ASSUME EngineSound, NEW c \in Calls, NEW k, job' = [job EXCEPT ![c] = k],
         job[c].at # "close", k.chats = job[c].chats \/ k.chats = 0,
         k.at = "close" /\ k.status = "timeout" => job[c].att = 0
  PROVE  /\ Quiet(job[c], job'[c])
         /\ \A d \in Calls \ {c} : Aside(job[d], job'[d])
<1>1. job[c].chats \in Nat
  BY SoundCall DEF JobType
<1>2. job'[c] = k /\ \A d \in Calls \ {c} : job'[d] = job[d]
  BY SoundCall
<1>3. Quiet(job[c], job'[c])
  BY <1>1, <1>2 DEF Quiet
<1>4. QED
  BY <1>2, <1>3 DEF Aside

(* The HTTP client ends with a timeout only when there is no time left.    *)
LEMMA ClientMoves ==
  ASSUME EngineSound, NEW c \in Calls, Connect(c) \/ Provide(c) \/ SocketTimeout(c)
  PROVE  /\ Quiet(job[c], job'[c])
         /\ \A d \in Calls \ {c} : Aside(job[d], job'[d])
<1> DEFINE j == job[c]
<1>1. j \in JobType /\ j.chats \in Nat /\ j.att \in Nat
  BY SoundCall DEF JobType
<1>3. ASSUME NEW i \in JobType, NEW s \in Status
      PROVE  Closing(i, s).status = s /\ Closing(i, s).chats = i.chats
  BY ClosingFields
<1>4. "timeout" \in Status /\ "unavailable" \in Status
  BY DEF Status
<1>5. CASE Connect(c)
  <2> DEFINE k == IF j.att = 0 THEN Closing(j, "timeout")
                  ELSE [j EXCEPT !.at = "connecting", !.sock = j.att, !.limit = j.att]
  <2>1. job' = [job EXCEPT ![c] = k] /\ j.at = "ready"
    BY <1>5, Zenon DEF Connect
  <2>2. k.chats = j.chats /\ (k.at = "close" => j.att = 0)
    BY <1>1, <1>3, <1>4 DEF JobType
  <2> HIDE DEF k
  <2>3. QED
    BY QuietMove, <2>1, <2>2
<1>6. CASE ConnectionFails(c)
  <2>1. PICK i : Failed(j, i) /\ job' = [job EXCEPT ![c] = SendFailure(i)]
    BY <1>6 DEF ConnectionFails, Failed
  <2> DEFINE k == SendFailure(i)
  <2>3. job' = [job EXCEPT ![c] = k] /\ j.at = "connecting"
    BY <1>6, <2>1 DEF ConnectionFails
  <2>4. i \in JobType /\ i.chats = j.chats
    BY <1>1, <2>1, FailedFields DEF Continues
  <2>5. k.chats = j.chats /\ (k.at = "close" => k.status = "unavailable")
    BY <1>3, <1>4, <2>4 DEF SendFailure, JobType
  <2> HIDE DEF k
  <2>6. QED
    BY QuietMove, <2>3, <2>5
<1>7. CASE HttpError(c)
  <2>1. PICK kind \in HttpKind :
          job' = [job EXCEPT ![c] = Closing([job[c] EXCEPT !.sent = @ + 1], kind)]
    BY <1>7 DEF HttpError
  <2> DEFINE n == j.sent + 1
             i == [j EXCEPT !.sent = n]
             k == Closing(i, kind)
  <2>2. n \in Nat /\ kind \in Status /\ kind # "timeout"
    BY <1>1 DEF JobType, HttpKind, Status
  <2>3. job' = [job EXCEPT ![c] = k] /\ j.at = "connecting"
    BY <1>7, <2>1 DEF HttpError
  <2> HIDE DEF n
  <2>4. i \in JobType /\ i.chats = j.chats
    BY <1>1, <2>2 DEF JobType
  <2> HIDE DEF i
  <2>5. k.chats = j.chats /\ k.status = kind
    BY <1>3, <2>2, <2>4
  <2> HIDE DEF k
  <2>6. QED
    BY QuietMove, <2>2, <2>3, <2>5
<1>8. CASE Respond(c)
  <2> DEFINE k == [j EXCEPT !.at = "reading", !.sock = j.limit, !.sent = @ + 1]
  <2>1. job' = [job EXCEPT ![c] = k] /\ j.at = "connecting"
    BY <1>8, SoundCall DEF Respond
  <2>2. k.chats = j.chats /\ k.at = "reading"
    BY <1>1 DEF JobType
  <2> HIDE DEF k
  <2>3. QED
    BY QuietMove, <2>1, <2>2
<1>9. CASE ReadLine(c)
  <2>3. PICK usage \in BOOLEAN :
          job' = [job EXCEPT ![c].sock = job[c].limit, ![c].told = @ \/ usage]
    BY <1>9 DEF ReadLine
  <2> DEFINE told == j.told \/ usage
             k == [j EXCEPT !.sock = j.limit, !.told = told]
  <2>1. job' = [job EXCEPT ![c] = k] /\ j.at = "reading"
    BY <1>9, <2>3, SoundCall, Zenon DEF ReadLine
  <2> HIDE DEF told
  <2>2. k.chats = j.chats /\ k.at = "reading"
    BY <1>1, <2>1 DEF JobType
  <2> HIDE DEF k
  <2>4. QED
    BY QuietMove, <2>1, <2>2
<1>10. CASE ReadAll(c)
  <2>1. PICK a \in Answers :
          job' = [job EXCEPT ![c].at = "drain", ![c].sock = 0, ![c].limit = 0,
                             ![c].sent = 0, ![c].mute = FALSE, ![c].answer = a]
    BY <1>10 DEF ReadAll
  <2> DEFINE k == [j EXCEPT !.at = "drain", !.sock = 0, !.limit = 0, !.sent = 0,
                            !.mute = FALSE, !.answer = a]
  <2>2. job' = [job EXCEPT ![c] = k]
    BY <2>1, SoundCall, Zenon
  <2>3. k.chats = j.chats /\ k.at = "drain" /\ j.at = "reading"
    BY <1>1, <1>10 DEF JobType, ReadAll
  <2> HIDE DEF k
  <2>4. QED
    BY QuietMove, <2>2, <2>3
<1>11. CASE ReadFails(c)
  <2>1. j.at = "reading"
    BY <1>11 DEF ReadFails
  <2>2. CASE job' = [job EXCEPT ![c] = Closing(@, "unavailable")]
    <3> DEFINE k == Closing(j, "unavailable")
    <3>1. k.status = "unavailable" /\ k.chats = j.chats /\ job' = [job EXCEPT ![c] = k]
      BY <1>1, <1>3, <1>4, <2>2
    <3> HIDE DEF k
    <3>2. QED
      BY QuietMove, <2>1, <3>1
  <2>3. CASE job' = [job EXCEPT ![c] = Over(@, "unknown")]
    <3> DEFINE k == Over(j, "unknown")
    <3>1. k.at = "done" /\ k.chats = 0 /\ job' = [job EXCEPT ![c] = k]
      BY <2>3 DEF Over, NewJob
    <3> HIDE DEF k
    <3>2. QED
      BY QuietMove, <2>1, <3>1
  <2>4. QED
    BY <1>11, <2>2, <2>3 DEF ReadFails
<1>12. CASE SocketTimeout(c)
  <2> DEFINE k == Closing(j, "timeout")
  <2>1. j.at \in {"connecting", "reading"} /\ j.sock = 0 /\ job' = [job EXCEPT ![c] = k]
    BY <1>12 DEF SocketTimeout
  <2>2. j.att = 0
    BY <1>1, <2>1, SoundCall DEF CallSound, OnTime
  <2>3. k.chats = j.chats
    BY <1>1, <1>3, <1>4
  <2> HIDE DEF k
  <2>4. QED
    BY QuietMove, <2>1, <2>2, <2>3
<1>13. QED
  BY <1>5, <1>6, <1>7, <1>8, <1>9, <1>10, <1>11, <1>12 DEF Provide

(* What a step may do to a call.                                           *)
LEMMA WhatMoves ==
  ASSUME EngineSound, Next, NEW c \in Calls
  PROVE  Quiet(job[c], job'[c]) \/ Judge(c) \/ Close(c)
<1>1. job[c] \in JobType
  BY SoundCall
<1>2. CASE Tick
  BY <1>1, <1>2, TickMoves, AsideIsQuiet
<1>3. ASSUME NEW d \in Calls, Generate(d) \/ Serve(d) \/ Provide(d) \/ SocketTimeout(d)
      PROVE  Quiet(job[c], job'[c]) \/ Judge(c) \/ Close(c)
  <2>1. CASE d = c
    BY <1>3, <2>1, GenerateMoves, TakingMoves, DeliverMoves, ClientMoves DEF Serve
  <2>2. CASE d # c
    <3>1. Aside(job[c], job'[c])
      BY <1>3, <2>2, GenerateMoves, TakingMoves, DeliverMoves, JudgeMoves, CloseMoves,
         ClientMoves DEF Serve
    <3>2. QED
      BY <1>1, <3>1, AsideIsQuiet
  <2>3. QED
    BY <2>1, <2>2
<1>4. QED
  BY <1>2, <1>3 DEF Next

(* Who is told of a timeout has had the time: no failure of the provider   *)
(* is taken for one, and the waits of several operations do not add up to  *)
(* less than the share of the attempt.                                     *)
THEOREM TimeoutsAreNoExcuse == EngineSpec => TimeoutsAreReal
<1>1. ASSUME EngineSound, [Next]_vars, NEW c \in Calls,
             job[c].at # "close", job'[c].at = "close", job'[c].status = "timeout"
      PROVE  job[c].att = 0
  <2>1. Next
    BY <1>1 DEF vars
  <2>2. CASE Quiet(job[c], job'[c])
    BY <1>1, <2>2 DEF Quiet
  <2>3. CASE Judge(c)
    BY <1>1, <2>3, JudgeMoves
  <2>4. CASE Close(c)
    BY <1>1, <2>4 DEF Close
  <2>5. QED
    BY <1>1, <2>1, <2>2, <2>3, <2>4, WhatMoves
<1>2. EngineSound /\ [Next]_vars =>
        [\A c \in Calls :
           job[c].at # "close" /\ job'[c].at = "close" /\ job'[c].status = "timeout"
             => job[c].att = 0]_vars
  BY <1>1
<1>3. QED
  BY <1>2, EngineIsSound, PTL DEF EngineSpec, TimeoutsAreReal

(* The metadata of a call that no other overlapped are its own, although   *)
(* they are read off the client that all workers share.                    *)
THEOREM LoneCallsKeepTheirMeter == EngineSpec => LoneCallsAreMetered
<1>1. ASSUME EngineSound, [Next]_vars, NEW c \in Calls,
             job[c].at = "close", job[c].alone, job'[c].at = "done", Waiting(c)
      PROVE  /\ job'[c].status = "ok" =>
                  job'[c].meta.attempts = IF job[c].retried THEN 2 ELSE 1
             /\ job'[c].meta.usage = IF job[c].told THEN c ELSE Nobody
  <2>1. Next
    BY <1>1 DEF vars
  <2>2. Close(c)
    <3>1. ~Quiet(job[c], job'[c])
      BY <1>1 DEF Quiet
    <3>2. ~Judge(c)
      BY <1>1 DEF Judge
    <3>3. QED
      BY <1>1, <2>1, <3>1, <3>2, WhatMoves
  <2> DEFINE j == job[c]
             ok == j.status = "ok"
             meta == [attempts |-> engine.attempts, usage |-> engine.usage,
                      broke |-> ok /\ j.broke,
                      regenerations |-> IF ok THEN j.chats - 1 ELSE 0]
             i == Over(j, j.status)
             k == [i EXCEPT !.meta = meta]
  <2>3. job' = [job EXCEPT ![c] = IF Waiting(c) THEN k ELSE Over(j, "gone")]
    BY <2>2, Zenon DEF Close
  <2>4. j \in JobType /\ j.status \in Status /\ Metered(engine, j, c)
    BY <1>1, SoundCall DEF JobType
  <2>5. i \in JobType /\ i.status = j.status
    BY <2>4, OverFields
  <2>6. meta.attempts = engine.attempts /\ meta.usage = engine.usage
    OBVIOUS
  <2> HIDE DEF meta, i
  <2>7. k.meta = meta /\ k.status = j.status
    BY <2>5 DEF JobType
  <2> HIDE DEF k
  <2>8. job'[c] = k
    BY <1>1, <2>3, SoundCall
  <2>9. Working(j)
    BY <1>1 DEF Working
  <2>10. engine.usage = IF j.told THEN c ELSE Nobody
    BY <1>1, <2>4, <2>9 DEF Metered
  <2>11. j.status = "ok" => engine.attempts = IF j.retried THEN 2 ELSE 1
    BY <1>1, <2>4, <2>9 DEF Metered, Tried
  <2>12. QED
    BY <2>6, <2>7, <2>8, <2>10, <2>11
<1>2. EngineSound /\ [Next]_vars =>
        [\A c \in Calls :
           job[c].at = "close" /\ job[c].alone /\ job'[c].at = "done" /\ Waiting(c) =>
             /\ job'[c].status = "ok" =>
                  job'[c].meta.attempts = IF job[c].retried THEN 2 ELSE 1
             /\ job'[c].meta.usage = IF job[c].told THEN c ELSE Nobody]_vars
  BY <1>1
<1>3. QED
  BY <1>2, EngineIsSound, PTL DEF EngineSpec, LoneCallsAreMetered

(* The split of the budget between the attempts is as it should be with    *)
(* the two of the servicer (max_attempts, servicer.py:51): the second is   *)
(* started before the deadline of the round if the first kept to its       *)
(* share.  With three, MIN_BUDGET as a floor can use the round up after    *)
(* two.                                                                    *)
THEOREM TheSecondAttemptHasTime ==
  MaxAttempts <= 2 => (EngineSpec => RegenerationHasTime)
<1> SUFFICES ASSUME MaxAttempts <= 2
             PROVE  EngineSpec => RegenerationHasTime
  OBVIOUS
<1>1. ASSUME EngineSound, [Next]_vars, NEW c \in Calls,
             job'[c].chats > job[c].chats, job[c].chats > 0, ~job[c].overrun
      PROVE  job[c].left > 0
  <2>1. job[c] \in JobType /\ job[c].chats \in Nat /\ job[c].left \in Nat
        /\ job[c].att \in Nat
    BY <1>1, SoundCall DEF JobType
  <2>2. Next
    BY <1>1, <2>1 DEF vars
  <2>3. ~Quiet(job[c], job'[c])
    BY <1>1, <2>1 DEF Quiet
  <2>4. ~Close(c)
    BY <1>1, <2>1, CloseMoves
  <2>5. Judge(c)
    BY <1>1, <2>2, <2>3, <2>4, WhatMoves
  <2>6. job[c].at = "drain" /\ engine.regenerate /\ job[c].tries >= 2
    BY <1>1, <2>5, JudgeMoves
  <2>7. job[c].left > job[c].att
    BY <1>1, <2>6, SoundCall DEF CallSound, OnTime, Running
  <2>8. QED
    BY <2>1, <2>7
<1>2. EngineSound /\ [Next]_vars =>
        [\A c \in Calls :
           job'[c].chats > job[c].chats /\ job[c].chats > 0 /\ ~job[c].overrun
             => job[c].left > 0]_vars
  BY <1>1
<1>3. QED
  BY <1>2, EngineIsSound, PTL DEF EngineSpec, RegenerationHasTime

=============================================================================
