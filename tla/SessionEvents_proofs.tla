------------------------ MODULE SessionEvents_proofs ------------------------
(***************************************************************************)
(* What the functions of SessionEvents return and preserve, for events of  *)
(* any number of tools and turns and histories of any length: the dialogue *)
(* survives validation, trimming and squashing; trimming that does not     *)
(* raise leaves intact pairs, and so does validation of a history it can   *)
(* mend. The functions recur on the length of a history, and the library's *)
(* induction takes an operator, so that the induction here is over sets of *)
(* naturals and of sequences (NaturalFacts).                               *)
(*                                                                         *)
(* The specification over those functions follows: the histories the agent *)
(* loop leaves (MCSessionEvents), validated and then trimmed.              *)
(***************************************************************************)
EXTENDS MCSessionEvents, NaturalFacts, FiniteSetTheorems

----------------------------------------------------------------------------
(* Keep obeys its recursion. *)
KeepBody(s, I, g) ==
  [n \in 0..Len(s) |->
     IF n = 0 THEN << >>
     ELSE IF n \in I THEN Append(g[n - 1], s[n])
     ELSE g[n - 1]]

LEMMA KeepRecursion ==
  ASSUME NEW E, NEW s \in Seq(E), NEW I
  PROVE  \E g : g = KeepBody(s, I, g) /\ Keep(s, I) = g[Len(s)]
<1> DEFINE F == [p \in Seq(E) \X (1..Len(s)) |->
                   IF p[2] \in I THEN Append(p[1], s[p[2]]) ELSE p[1]]
<1>1. Len(s) \in Nat /\ << >> \in Seq(E)
  OBVIOUS
<1>2. F \in [Seq(E) \X (1..Len(s)) -> Seq(E)]
  <2>1. ASSUME NEW p \in Seq(E) \X (1..Len(s))
        PROVE  (IF p[2] \in I THEN Append(p[1], s[p[2]]) ELSE p[1]) \in Seq(E)
    <3>1. p[1] \in Seq(E) /\ p[2] \in 1..Len(s) /\ s[p[2]] \in E
      OBVIOUS
    <3>2. QED
      BY <3>1
  <2>2. QED
    BY <2>1
<1>3. PICK g \in Iterates(Len(s), Seq(E), << >>, F) : TRUE
  <2> HIDE DEF F
  <2> QED
    BY <1>1, <1>2, Iteration
<1>4. ASSUME NEW n \in 0..Len(s)
      PROVE  g[n] = IF n = 0 THEN << >>
                    ELSE IF n \in I THEN Append(g[n - 1], s[n])
                    ELSE g[n - 1]
  <2>1. CASE n = 0
    BY <1>3, <2>1 DEF Iterates
  <2>2. CASE n # 0
    <3>1. n \in 1..Len(s) /\ n - 1 \in 0..Len(s)
      BY <1>1, <2>2
    <3>2. g[n] = F[<<g[n - 1], n>>] /\ g[n - 1] \in Seq(E)
      BY <1>3, <3>1 DEF Iterates
    <3>3. <<g[n - 1], n>> \in Seq(E) \X (1..Len(s))
      BY <3>1, <3>2
    <3>4. QED
      BY <2>2, <3>2, <3>3
  <2>3. QED
    BY <2>1, <2>2
<1>5. g = KeepBody(s, I, g)
  <2>1. g = [n \in 0..Len(s) |-> g[n]]
    BY <1>3 DEF Iterates
  <2>2. QED
    BY <1>4, <2>1 DEF KeepBody
<1> DEFINE f == CHOOSE h : h = KeepBody(s, I, h)
<1>6. f = KeepBody(s, I, f)
  BY <1>5
<1>7. Keep(s, I) = f[Len(s)]
  BY DEF Keep, KeepBody
<1>8. QED
  BY <1>6, <1>7

(* Keep returns a list of events of s at positions in I and of no others.  *)
LEMMA KeepMembers ==
  ASSUME NEW E, NEW s \in Seq(E), NEW I
  PROVE  Keep(s, I) \in Seq({s[i] : i \in I \cap DOMAIN s})
<1> DEFINE M == {s[i] : i \in I \cap DOMAIN s}
<1>1. Len(s) \in Nat /\ DOMAIN s = 1..Len(s)
  OBVIOUS
<1>2. PICK g : g = KeepBody(s, I, g) /\ Keep(s, I) = g[Len(s)]
  BY KeepRecursion
<1>3. g[0] \in Seq(M)
  <2>1. g[0] = << >>
    BY <1>1, <1>2 DEF KeepBody
  <2>2. QED
    BY <2>1
<1>4. ASSUME NEW n \in 1..Len(s), g[n - 1] \in Seq(M)
      PROVE  g[n] \in Seq(M)
  <2>1. n \in 0..Len(s) /\ n # 0
    BY <1>1
  <2>2. g[n] = IF n \in I THEN Append(g[n - 1], s[n]) ELSE g[n - 1]
    BY <1>2, <2>1 DEF KeepBody
  <2>3. CASE n \in I
    <3>1. s[n] \in M
      BY <1>1, <2>3
    <3>2. QED
      BY <1>4, <2>2, <2>3, <3>1
  <2>4. CASE n \notin I
    BY <1>4, <2>2, <2>4
  <2>5. QED
    BY <2>3, <2>4
<1>5. \A n \in 0..Len(s) : g[n] \in Seq(M)
  <2> HIDE DEF M
  <2>1. \A n \in 1..Len(s) : g[n - 1] \in Seq(M) => g[n] \in Seq(M)
    BY <1>4
  <2>2. QED
    BY <1>1, <1>3, <2>1, Along
<1>6. QED
  BY <1>1, <1>2, <1>5

(* What Keep returns is made of events of s. *)
LEMMA KeepType ==
  ASSUME NEW E, NEW s \in Seq(E), NEW I
  PROVE  Keep(s, I) \in Seq(E)
<1> DEFINE M == {s[i] : i \in I \cap DOMAIN s}
<1>1. Keep(s, I) \in Seq(M)
  BY KeepMembers
<1>2. M \subseteq E
  OBVIOUS
<1>3. QED
  <2> HIDE DEF M
  <2> QED
    BY <1>1, <1>2

----------------------------------------------------------------------------
(* What the scan of validate_session has in hand. *)
ScanValues(E) == [events : Seq(E), pending : Seq(E), errors : Int]

LEMMA ScanStepType ==
  ASSUME NEW E, NEW e \in E, NEW acc \in ScanValues(E)
  PROVE  ScanStep(acc, e) \in ScanValues(E)
<1>1. /\ acc = [events |-> acc.events, pending |-> acc.pending, errors |-> acc.errors]
      /\ acc.events \in Seq(E) /\ acc.pending \in Seq(E) /\ acc.errors \in Int
  BY DEF ScanValues
<1>2. /\ Append(acc.events, e) \in Seq(E)
      /\ acc.events \o acc.pending \in Seq(E)
      /\ Append(acc.events \o acc.pending, e) \in Seq(E)
      /\ <<e>> \in Seq(E) /\ << >> \in Seq(E)
      /\ Len(acc.pending) \in Nat
  BY <1>1
<1>3. [acc EXCEPT !.events = Append(@, e)] \in ScanValues(E)
  BY <1>1, <1>2 DEF ScanValues
<1>4. ScanResult(acc, e) \in ScanValues(E)
  BY <1>1, <1>2 DEF ScanResult, ScanValues
<1>5. ScanCall(acc, e) \in ScanValues(E)
  BY <1>1, <1>2 DEF ScanCall, ScanValues
<1>6. ScanPlain(acc, e) \in ScanValues(E)
  BY <1>1, <1>2 DEF ScanPlain, ScanValues
<1>7. QED
  BY <1>3, <1>4, <1>5, <1>6 DEF ScanStep

ScanBody(s, g) ==
  [n \in 0..Len(s) |-> IF n = 0 THEN ScanStart ELSE ScanStep(g[n - 1], s[n])]

(* Scan obeys its recursion. *)
LEMMA ScanRecursion ==
  ASSUME NEW E, NEW s \in Seq(E)
  PROVE  \E g : g = ScanBody(s, g) /\ Scan(s) = g[Len(s)]
<1> DEFINE F == [p \in ScanValues(E) \X (1..Len(s)) |-> ScanStep(p[1], s[p[2]])]
<1>1. Len(s) \in Nat /\ ScanStart \in ScanValues(E)
  BY DEF ScanStart, ScanValues
<1>2. F \in [ScanValues(E) \X (1..Len(s)) -> ScanValues(E)]
  <2>1. ASSUME NEW p \in ScanValues(E) \X (1..Len(s))
        PROVE  ScanStep(p[1], s[p[2]]) \in ScanValues(E)
    <3>1. p[1] \in ScanValues(E) /\ p[2] \in 1..Len(s) /\ s[p[2]] \in E
      OBVIOUS
    <3>2. QED
      BY <3>1, ScanStepType
  <2>2. QED
    BY <2>1
<1>3. PICK g \in Iterates(Len(s), ScanValues(E), ScanStart, F) : TRUE
  <2> HIDE DEF F
  <2> QED
    BY <1>1, <1>2, Iteration
<1>4. ASSUME NEW n \in 0..Len(s)
      PROVE  g[n] = IF n = 0 THEN ScanStart ELSE ScanStep(g[n - 1], s[n])
  <2>1. CASE n = 0
    BY <1>3, <2>1 DEF Iterates
  <2>2. CASE n # 0
    <3>1. n \in 1..Len(s) /\ n - 1 \in 0..Len(s)
      BY <1>1, <2>2
    <3>2. g[n] = F[<<g[n - 1], n>>] /\ g[n - 1] \in ScanValues(E)
      BY <1>3, <3>1 DEF Iterates
    <3>3. <<g[n - 1], n>> \in ScanValues(E) \X (1..Len(s))
      BY <3>1, <3>2
    <3>4. QED
      BY <2>2, <3>2, <3>3
  <2>3. QED
    BY <2>1, <2>2
<1>5. g = ScanBody(s, g)
  <2>1. g = [n \in 0..Len(s) |-> g[n]]
    BY <1>3 DEF Iterates
  <2>2. QED
    BY <1>4, <2>1 DEF ScanBody
<1> DEFINE f == CHOOSE h : h = ScanBody(s, h)
<1>6. f = ScanBody(s, f)
  BY <1>5
<1>7. Scan(s) = f[Len(s)]
  BY DEF Scan, ScanBody
<1>8. QED
  BY <1>6, <1>7

(* Validation returns a list of events it was given. *)
LEMMA ScanType ==
  ASSUME NEW E, NEW s \in Seq(E)
  PROVE  Scan(s) \in ScanValues(E) /\ Repaired(s) \in Seq(E)
<1>1. Len(s) \in Nat
  OBVIOUS
<1>2. PICK g : g = ScanBody(s, g) /\ Scan(s) = g[Len(s)]
  BY ScanRecursion
<1>3. g[0] \in ScanValues(E)
  BY <1>1, <1>2 DEF ScanBody, ScanStart, ScanValues
<1>4. ASSUME NEW n \in 1..Len(s), g[n - 1] \in ScanValues(E)
      PROVE  g[n] \in ScanValues(E)
  <2>1. n \in 0..Len(s) /\ n # 0 /\ s[n] \in E
    BY <1>1
  <2>2. g[n] = ScanStep(g[n - 1], s[n])
    BY <1>2, <2>1 DEF ScanBody
  <2>3. QED
    BY <1>4, <2>1, <2>2, ScanStepType
<1>5. \A n \in 0..Len(s) : g[n] \in ScanValues(E)
  <2>1. \A n \in 1..Len(s) : g[n - 1] \in ScanValues(E) => g[n] \in ScanValues(E)
    BY <1>4
  <2>2. QED
    BY <1>1, <1>3, <2>1, Along
<1>6. Scan(s) \in ScanValues(E)
  BY <1>1, <1>2, <1>5
<1>7. QED
  BY <1>6 DEF Repaired, ScanValues

----------------------------------------------------------------------------
(* The rewriting functions return lists of events. *)

LEMMA TrimmedType == ASSUME NEW E, NEW s \in Seq(E) PROVE Trimmed(s) \in Seq(E)
BY KeepType DEF Trimmed

LEMMA SquashedType ==
  ASSUME NEW s \in Seq(Event)
  PROVE  /\ Squashed(s) \in Seq(Event)
         /\ \A i \in DOMAIN Squashed(s) : Squashed(s)[i].kind \notin ToolKinds
<1> DEFINE I == {i \in DOMAIN s : IsFinalResponse(s[i]) /\ HasContent(s[i])}
           M == {s[i] : i \in I \cap DOMAIN s}
<1>1. Squashed(s) \in Seq(M)
  BY KeepMembers DEF Squashed
<1>2. \A e \in M : e.kind \notin ToolKinds
  BY DEF IsFinalResponse
<1>3. \A i \in DOMAIN Squashed(s) : Squashed(s)[i] \in M
  <2> HIDE DEF M
  <2> QED
    BY <1>1
<1>4. Squashed(s) \in Seq(Event)
  BY KeepType DEF Squashed
<1>5. QED
  BY <1>2, <1>3, <1>4

LEMMA CompactedType ==
  ASSUME NEW s \in Seq(Event), NEW t \in Turns
  PROVE  /\ CompactedTo(s, t) \in Seq(Event)
         /\ \A i \in DOMAIN CompactedTo(s, t) : CompactedTo(s, t)[i].kind \notin ToolKinds
<1> DEFINE I == {i \in DOMAIN s :
                   /\ HasContent(s[i])
                   /\ \A j \in 1..i : HasContent(s[j]) => s[j].kind = "user"}
           M == {s[i] : i \in I \cap DOMAIN s}
           kept == Keep(s, I)
<1>1. kept \in Seq(M) /\ kept \in Seq(Event)
  BY KeepMembers, KeepType
<1>2. \A e \in M : e.kind = "user"
  OBVIOUS
<1>3. AgentText(t) \in Event /\ AgentText(t).kind = "text"
  BY DEF AgentText, Event, TextKinds
<1>4. CompactedTo(s, t) = Append(kept, AgentText(t))
  BY DEF CompactedTo
<1>5. ASSUME NEW i \in DOMAIN CompactedTo(s, t)
      PROVE  CompactedTo(s, t)[i].kind \notin ToolKinds
  <2> HIDE DEF M, kept
  <2>1. CompactedTo(s, t)[i] \in M \/ CompactedTo(s, t)[i] = AgentText(t)
    BY <1>1, <1>4
  <2>2. QED
    BY <1>2, <1>3, <2>1 DEF ToolKinds
<1>6. CompactedTo(s, t) \in Seq(Event)
  <2> HIDE DEF kept
  <2> QED
    BY <1>1, <1>3, <1>4
<1>7. QED
  BY <1>5, <1>6

----------------------------------------------------------------------------
(* Histories that grow at their end.                                       *)

(* Keep, element by element. *)
LEMMA KeepEmpty == \A I : Keep(<< >>, I) = << >>
<1> SUFFICES ASSUME NEW I PROVE Keep(<< >>, I) = << >>
  OBVIOUS
<1>1. << >> \in Seq({}) /\ Len(<< >>) = 0
  OBVIOUS
<1>2. PICK g : g = KeepBody(<< >>, I, g) /\ Keep(<< >>, I) = g[Len(<< >>)]
  BY <1>1, KeepRecursion
<1>3. g[0] = << >>
  BY <1>1, <1>2 DEF KeepBody
<1>4. QED
  BY <1>1, <1>2, <1>3

LEMMA KeepAppend ==
  ASSUME NEW E, NEW s \in Seq(E), NEW e \in E, NEW I
  PROVE  Keep(Append(s, e), I) =
           IF Len(s) + 1 \in I THEN Append(Keep(s, I), e) ELSE Keep(s, I)
<1> DEFINE t == Append(s, e)
           N == Len(s)
<1>1. /\ N \in Nat /\ t \in Seq(E) /\ Len(t) = N + 1 /\ t[N + 1] = e
      /\ \A n \in 1..N : t[n] = s[n]
  OBVIOUS
<1>2. PICK g : g = KeepBody(s, I, g) /\ Keep(s, I) = g[N]
  BY KeepRecursion
<1>3. PICK h : h = KeepBody(t, I, h) /\ Keep(t, I) = h[N + 1]
  <2> HIDE DEF t
  <2>1. \E h : h = KeepBody(t, I, h) /\ Keep(t, I) = h[Len(t)]
    BY <1>1, KeepRecursion
  <2>2. QED
    BY <1>1, <2>1
<1> HIDE DEF t, N
<1>4. /\ g[0] = << >> /\ h[0] = << >>
      /\ \A n \in 1..N : g[n] = IF n \in I THEN Append(g[n - 1], s[n]) ELSE g[n - 1]
      /\ \A n \in 1..(N + 1) : h[n] = IF n \in I THEN Append(h[n - 1], t[n]) ELSE h[n - 1]
  <2>1. /\ \A n \in 0..N : g[n] = IF n = 0 THEN << >> ELSE IF n \in I THEN Append(g[n - 1], s[n]) ELSE g[n - 1]
        /\ \A n \in 0..(N + 1) : h[n] = IF n = 0 THEN << >> ELSE IF n \in I THEN Append(h[n - 1], t[n]) ELSE h[n - 1]
    BY <1>1, <1>2, <1>3 DEF KeepBody, N
  <2>2. 0 \in 0..N /\ 0 \in 0..(N + 1)
    BY <1>1
  <2>3. \A n \in 1..N : n \in 0..N /\ n # 0
    BY <1>1
  <2>4. \A n \in 1..(N + 1) : n \in 0..(N + 1) /\ n # 0
    BY <1>1
  <2>5. g[0] = << >> /\ h[0] = << >>
    BY <2>1, <2>2
  <2>6. \A n \in 1..N : g[n] = IF n \in I THEN Append(g[n - 1], s[n]) ELSE g[n - 1]
    BY <2>1, <2>3
  <2>7. \A n \in 1..(N + 1) : h[n] = IF n \in I THEN Append(h[n - 1], t[n]) ELSE h[n - 1]
    BY <2>1, <2>4
  <2>8. QED
    BY <2>5, <2>6, <2>7
<1> DEFINE S == {n \in 0..N : h[n] = g[n]}
<1>5. \A n \in 0..N : n \in S
  <2>1. 0 \in S
    BY <1>1, <1>4
  <2>2. ASSUME NEW n \in 0..N, n \in S, n < N PROVE n + 1 \in S
    <3>1. n + 1 \in 1..N /\ n + 1 \in 1..(N + 1) /\ (n + 1) - 1 = n /\ n + 1 \in 0..N
      BY <1>1, <2>2
    <3>2. h[n + 1] = g[n + 1]
      BY <1>1, <1>4, <2>2, <3>1
    <3>3. QED
      BY <3>1, <3>2
  <2>3. QED
    <3> HIDE DEF S
    <3> QED
      BY <1>1, <2>1, <2>2, BoundedInduction
<1>6. h[N] = g[N] /\ N + 1 \in 1..(N + 1) /\ (N + 1) - 1 = N
  BY <1>1, <1>5
<1>7. h[N + 1] = IF N + 1 \in I THEN Append(g[N], e) ELSE g[N]
  BY <1>1, <1>4, <1>6
<1>8. QED
  BY <1>2, <1>3, <1>7 DEF N, t

(* Only the positions of the sequence count. *)
LEMMA KeepSame ==
  ASSUME NEW E, NEW s \in Seq(E), NEW I, NEW J, \A n \in 1..Len(s) : n \in I <=> n \in J
  PROVE  Keep(s, I) = Keep(s, J)
<1> DEFINE S == {u \in Seq(E) : (\A n \in 1..Len(u) : n \in I <=> n \in J) => Keep(u, I) = Keep(u, J)}
<1>1. << >> \in S
  BY KeepEmpty
<1>2. ASSUME NEW u \in Seq(E), NEW e \in E, u \in S PROVE Append(u, e) \in S
  <2>1. ASSUME \A n \in 1..Len(Append(u, e)) : n \in I <=> n \in J
        PROVE  Keep(Append(u, e), I) = Keep(Append(u, e), J)
    <3>1. Len(Append(u, e)) = Len(u) + 1 /\ Len(u) \in Nat
      OBVIOUS
    <3>2. Keep(u, I) = Keep(u, J) /\ (Len(u) + 1 \in I <=> Len(u) + 1 \in J)
      BY <1>2, <2>1, <3>1
    <3>3. Keep(Append(u, e), I) = IF Len(u) + 1 \in I THEN Append(Keep(u, I), e) ELSE Keep(u, I)
      BY KeepAppend
    <3>4. Keep(Append(u, e), J) = IF Len(u) + 1 \in J THEN Append(Keep(u, J), e) ELSE Keep(u, J)
      BY KeepAppend
    <3>5. QED
      BY <3>2, <3>3, <3>4
  <2>2. QED
    BY <2>1
<1>3. s \in S
  <2> HIDE DEF S
  <2> QED
    BY <1>1, <1>2, SequenceInduction
<1>4. QED
  BY <1>3

(* The scan, event by event. *)
LEMMA ScanEmpty == Scan(<< >>) = ScanStart
<1>1. << >> \in Seq({}) /\ Len(<< >>) = 0
  OBVIOUS
<1>2. PICK g : g = ScanBody(<< >>, g) /\ Scan(<< >>) = g[Len(<< >>)]
  BY <1>1, ScanRecursion
<1>3. g[0] = ScanStart
  BY <1>1, <1>2 DEF ScanBody
<1>4. QED
  BY <1>1, <1>2, <1>3

LEMMA ScanAppend ==
  ASSUME NEW E, NEW s \in Seq(E), NEW e \in E
  PROVE  Scan(Append(s, e)) = ScanStep(Scan(s), e)
<1> DEFINE t == Append(s, e)
           N == Len(s)
<1>1. /\ N \in Nat /\ t \in Seq(E) /\ Len(t) = N + 1 /\ t[N + 1] = e
      /\ \A n \in 1..N : t[n] = s[n]
  OBVIOUS
<1>2. PICK g : g = ScanBody(s, g) /\ Scan(s) = g[N]
  BY ScanRecursion
<1>3. PICK h : h = ScanBody(t, h) /\ Scan(t) = h[N + 1]
  <2> HIDE DEF t
  <2>1. \E h : h = ScanBody(t, h) /\ Scan(t) = h[Len(t)]
    BY <1>1, ScanRecursion
  <2>2. QED
    BY <1>1, <2>1
<1> HIDE DEF t, N
<1>4. /\ \A n \in 0..N : g[n] = IF n = 0 THEN ScanStart ELSE ScanStep(g[n - 1], s[n])
      /\ \A n \in 0..(N + 1) : h[n] = IF n = 0 THEN ScanStart ELSE ScanStep(h[n - 1], t[n])
  BY <1>1, <1>2, <1>3 DEF ScanBody, N
<1> DEFINE S == {n \in 0..N : h[n] = g[n]}
<1>5. \A n \in 0..N : n \in S
  <2>1. 0 \in S
    BY <1>1, <1>4
  <2>2. ASSUME NEW n \in 0..N, n \in S, n < N PROVE n + 1 \in S
    <3>1. n + 1 \in 1..N /\ n + 1 \in 0..(N + 1) /\ (n + 1) - 1 = n /\ n + 1 \in 0..N /\ n + 1 # 0
      BY <1>1, <2>2
    <3>2. h[n + 1] = g[n + 1]
      BY <1>1, <1>4, <2>2, <3>1
    <3>3. QED
      BY <3>1, <3>2
  <2>3. QED
    <3> HIDE DEF S
    <3> QED
      BY <1>1, <2>1, <2>2, BoundedInduction
<1>6. h[N] = g[N] /\ N + 1 \in 0..(N + 1) /\ (N + 1) - 1 = N /\ N + 1 # 0
  BY <1>1, <1>5
<1>7. h[N + 1] = ScanStep(g[N], e)
  BY <1>1, <1>4, <1>6
<1>8. QED
  BY <1>2, <1>3, <1>7 DEF N, t

----------------------------------------------------------------------------
(* The dialogue, and what keeps it.                                        *)

(* Keeping all positions keeps the sequence. *)
LEMMA KeepAll ==
  ASSUME NEW E, NEW s \in Seq(E), NEW I, 1..Len(s) \subseteq I
  PROVE  Keep(s, I) = s
<1> DEFINE S == {u \in Seq(E) : 1..Len(u) \subseteq I => Keep(u, I) = u}
<1>1. << >> \in S
  BY KeepEmpty
<1>2. ASSUME NEW u \in Seq(E), NEW e \in E, u \in S PROVE Append(u, e) \in S
  <2>1. ASSUME 1..Len(Append(u, e)) \subseteq I
        PROVE  Keep(Append(u, e), I) = Append(u, e)
    <3>1. Len(Append(u, e)) = Len(u) + 1 /\ Len(u) \in Nat
      OBVIOUS
    <3>2. 1..Len(u) \subseteq I /\ Len(u) + 1 \in I
      BY <2>1, <3>1
    <3>3. QED
      BY <1>2, <3>2, KeepAppend
  <2>2. QED
    BY <2>1
<1>3. s \in S
  <2> HIDE DEF S
  <2> QED
    BY <1>1, <1>2, SequenceInduction
<1>4. QED
  BY <1>3

(* The dialogue, event by event. *)
LEMMA DialogEmpty == Dialog(<< >>) = << >>
BY KeepEmpty DEF Dialog

LEMMA DialogAppend ==
  ASSUME NEW E, NEW s \in Seq(E), NEW e \in E
  PROVE  Dialog(Append(s, e)) =
           IF e.kind \in TextKinds THEN Append(Dialog(s), e) ELSE Dialog(s)
<1> DEFINE t == Append(s, e)
           I == {i \in DOMAIN s : s[i].kind \in TextKinds}
           J == {i \in DOMAIN t : t[i].kind \in TextKinds}
<1>1. /\ Len(s) \in Nat /\ DOMAIN s = 1..Len(s) /\ DOMAIN t = 1..(Len(s) + 1)
      /\ t[Len(s) + 1] = e /\ \A n \in 1..Len(s) : t[n] = s[n]
  OBVIOUS
<1>2. \A n \in 1..Len(s) : n \in I <=> n \in J
  <2> HIDE DEF t
  <2> QED
    BY <1>1
<1>3. Len(s) + 1 \in J <=> e.kind \in TextKinds
  <2> HIDE DEF t
  <2> QED
    BY <1>1
<1>4. Keep(s, I) = Keep(s, J)
  <2> HIDE DEF I, J
  <2> QED
    BY <1>2, KeepSame
<1>5. Keep(t, J) = IF Len(s) + 1 \in J THEN Append(Keep(s, J), e) ELSE Keep(s, J)
  <2> HIDE DEF J
  <2> QED
    BY KeepAppend
<1>6. Dialog(t) = Keep(t, J) /\ Dialog(s) = Keep(s, I)
  BY DEF Dialog
<1>7. QED
  <2> HIDE DEF I, J, t
  <2>1. Dialog(t) = IF e.kind \in TextKinds THEN Append(Dialog(s), e) ELSE Dialog(s)
    BY <1>3, <1>4, <1>5, <1>6
  <2>2. QED
    BY <2>1 DEF t

LEMMA DialogType ==
  ASSUME NEW E, NEW s \in Seq(E)
  PROVE  Dialog(s) \in Seq(E)
BY KeepType DEF Dialog

(* Keeping every event of the dialogue keeps the dialogue. *)
LEMMA DialogOfKept ==
  ASSUME NEW E, NEW s \in Seq(E), NEW I,
         \A i \in 1..Len(s) : s[i].kind \in TextKinds => i \in I
  PROVE  Dialog(Keep(s, I)) = Dialog(s)
<1> DEFINE Covers(u) == \A i \in 1..Len(u) : u[i].kind \in TextKinds => i \in I
           S == {u \in Seq(E) : Covers(u) => Dialog(Keep(u, I)) = Dialog(u)}
<1>1. << >> \in S
  BY KeepEmpty
<1>2. ASSUME NEW u \in Seq(E), NEW e \in E, u \in S PROVE Append(u, e) \in S
  <2> DEFINE t == Append(u, e)
             k == Keep(u, I)
  <2>1. ASSUME Covers(t)
        PROVE  Dialog(Keep(t, I)) = Dialog(t)
    <3>1. /\ Len(t) = Len(u) + 1 /\ Len(u) \in Nat /\ t[Len(u) + 1] = e
          /\ \A n \in 1..Len(u) : t[n] = u[n]
      OBVIOUS
    <3>2. Covers(u) /\ (e.kind \in TextKinds => Len(u) + 1 \in I)
      <4> HIDE DEF t
      <4> QED
        BY <2>1, <3>1
    <3>3. Dialog(k) = Dialog(u) /\ k \in Seq(E)
      BY <1>2, <3>2, KeepType
    <3>4. Keep(t, I) = IF Len(u) + 1 \in I THEN Append(k, e) ELSE k
      BY KeepAppend
    <3>5. Dialog(t) = IF e.kind \in TextKinds THEN Append(Dialog(u), e) ELSE Dialog(u)
      BY DialogAppend
    <3>6. Dialog(Append(k, e)) = IF e.kind \in TextKinds THEN Append(Dialog(k), e) ELSE Dialog(k)
      <4> HIDE DEF k
      <4> QED
        BY <3>3, DialogAppend
    <3>7. CASE Len(u) + 1 \in I
      BY <3>3, <3>4, <3>5, <3>6, <3>7
    <3>8. CASE Len(u) + 1 \notin I
      BY <3>2, <3>3, <3>4, <3>5, <3>8
    <3>9. QED
      BY <3>7, <3>8
  <2>2. t \in Seq(E)
    OBVIOUS
  <2>3. QED
    <3> HIDE DEF t, Covers
    <3>1. t \in S
      BY <2>1, <2>2
    <3>2. QED
      BY <3>1 DEF t
<1>3. s \in S
  <2> HIDE DEF S
  <2> QED
    BY <1>1, <1>2, SequenceInduction
<1>4. QED
  BY <1>3

(* Trimming and squashing leave the dialogue alone. *)
LEMMA DialogOfTrimmed ==
  ASSUME NEW s \in Seq(Event)
  PROVE  Dialog(Trimmed(s)) = Dialog(s)
<1>1. DOMAIN s = 1..Len(s) /\ \A k \in TextKinds : k \notin ToolKinds
  BY DEF TextKinds, ToolKinds
<1>2. QED
  BY <1>1, DialogOfKept DEF Trimmed

LEMMA DialogOfSquashed ==
  ASSUME NEW s \in Seq(Event)
  PROVE  Dialog(Squashed(s)) = Dialog(s)
<1>1. DOMAIN s = 1..Len(s) /\ \A k \in TextKinds : k \notin ToolKinds /\ k # "empty"
  BY DEF TextKinds, ToolKinds
<1>2. QED
  BY <1>1, DialogOfKept DEF Squashed, IsFinalResponse, HasContent

----------------------------------------------------------------------------
(* Validation keeps the dialogue; /compact keeps a prefix of it and adds   *)
(* the summary.                                                            *)

(* The scan holds at most one event back, a call, and what it lets through *)
(* has the dialogue of what it was given.                                  *)
HeldBack(acc) ==
  acc.pending # << >> => \E c \in Event : IsToolCall(c) /\ acc.pending = <<c>>

LEMMA ScanHoldsCall ==
  ASSUME NEW e \in Event, NEW acc \in ScanValues(Event), HeldBack(acc)
  PROVE  HeldBack(ScanStep(acc, e))
<1>1. CASE ~HasContent(e)
  BY <1>1 DEF ScanStep, HeldBack, ScanValues
<1>2. CASE HasContent(e) /\ IsToolResult(e)
  BY <1>2 DEF ScanStep, ScanResult, HeldBack, ScanValues
<1>3. CASE HasContent(e) /\ ~IsToolResult(e) /\ IsToolCall(e)
  BY <1>3 DEF ScanStep, ScanCall, HeldBack, ScanValues
<1>4. CASE HasContent(e) /\ ~IsToolResult(e) /\ ~IsToolCall(e)
  BY <1>4 DEF ScanStep, ScanPlain, HeldBack, ScanValues
<1>5. QED
  BY <1>1, <1>2, <1>3, <1>4

LEMMA ScanKeepsDialog ==
  ASSUME NEW e \in Event, NEW acc \in ScanValues(Event), HeldBack(acc)
  PROVE  Dialog(ScanStep(acc, e).events) =
           IF e.kind \in TextKinds THEN Append(Dialog(acc.events), e)
                                   ELSE Dialog(acc.events)
<1> DEFINE ev == acc.events
<1>0. ev \in Seq(Event)
  BY DEF ScanValues
<1>1. Dialog(Append(ev, e)) = IF e.kind \in TextKinds THEN Append(Dialog(ev), e) ELSE Dialog(ev)
  <2> HIDE DEF ev
  <2> QED
    BY <1>0, DialogAppend
<1>2. CASE ~HasContent(e)
  <2>1. ScanStep(acc, e).events = Append(ev, e)
    BY <1>2 DEF ScanStep, ScanValues
  <2>2. QED
    BY <1>1, <2>1
<1>3. CASE HasContent(e) /\ IsToolResult(e)
  <2>1. e.kind \notin TextKinds
    BY <1>3 DEF IsToolResult, TextKinds
  <2>2. CASE acc.pending = << >>
    <3>1. ScanStep(acc, e).events = ev
      BY <1>3, <2>2 DEF ScanStep, ScanResult, ScanValues
    <3>2. QED
      BY <2>1, <3>1
  <2>3. CASE acc.pending # << >>
    <3>1. PICK c \in Event : IsToolCall(c) /\ acc.pending = <<c>>
      BY <2>3 DEF HeldBack
    <3> DEFINE evc == Append(ev, c)
    <3>2. ev \o <<c>> = evc /\ evc \in Seq(Event)
      BY <1>0
    <3>3. ScanStep(acc, e).events = Append(evc, e)
      <4>1. ScanStep(acc, e).events = Append(ev \o acc.pending, e)
        BY <1>3, <2>3 DEF ScanStep, ScanResult
      <4>2. QED
        BY <3>1, <3>2, <4>1
    <3>4. Dialog(Append(evc, e)) = Dialog(evc)
      <4> HIDE DEF evc
      <4> QED
        BY <2>1, <3>2, DialogAppend
    <3>5. Dialog(evc) = Dialog(ev)
      <4>1. c.kind \notin TextKinds
        BY <3>1 DEF IsToolCall, TextKinds
      <4>2. QED
        <5> HIDE DEF ev
        <5> QED
          BY <1>0, <4>1, DialogAppend
    <3>6. QED
      BY <2>1, <3>3, <3>4, <3>5
  <2>4. QED
    BY <2>2, <2>3
<1>4. CASE HasContent(e) /\ ~IsToolResult(e) /\ IsToolCall(e)
  <2>1. e.kind \notin TextKinds
    BY <1>4 DEF IsToolCall, TextKinds
  <2>2. ScanStep(acc, e).events = ev
    BY <1>4 DEF ScanStep, ScanCall
  <2>3. QED
    BY <2>1, <2>2
<1>5. CASE HasContent(e) /\ ~IsToolResult(e) /\ ~IsToolCall(e)
  <2>1. ScanStep(acc, e).events = Append(ev, e)
    BY <1>5 DEF ScanStep, ScanPlain
  <2>2. QED
    BY <1>1, <2>1
<1>6. QED
  BY <1>2, <1>3, <1>4, <1>5

LEMMA DialogOfRepaired ==
  ASSUME NEW s \in Seq(Event)
  PROVE  HeldBack(Scan(s)) /\ Dialog(Repaired(s)) = Dialog(s)
<1> DEFINE S == {u \in Seq(Event) : HeldBack(Scan(u)) /\ Dialog(Scan(u).events) = Dialog(u)}
<1>1. << >> \in S
  BY ScanEmpty DEF ScanStart, HeldBack
<1>2. ASSUME NEW u \in Seq(Event), NEW e \in Event, u \in S PROVE Append(u, e) \in S
  <2> DEFINE t == Append(u, e)
             a == Scan(u)
  <2>1. a \in ScanValues(Event) /\ HeldBack(a) /\ Dialog(a.events) = Dialog(u)
    BY <1>2, ScanType
  <2>2. Scan(t) = ScanStep(a, e)
    BY ScanAppend
  <2>3. Dialog(t) = IF e.kind \in TextKinds THEN Append(Dialog(u), e) ELSE Dialog(u)
    BY DialogAppend
  <2>4. t \in Seq(Event)
    OBVIOUS
  <2>5. HeldBack(Scan(t)) /\ Dialog(Scan(t).events) = Dialog(t)
    <3> HIDE DEF t, a
    <3>1. HeldBack(ScanStep(a, e))
      BY <2>1, ScanHoldsCall
    <3>2. Dialog(ScanStep(a, e).events) =
             IF e.kind \in TextKinds THEN Append(Dialog(a.events), e) ELSE Dialog(a.events)
      BY <2>1, ScanKeepsDialog
    <3>3. QED
      BY <2>1, <2>2, <2>3, <3>1, <3>2
  <2>6. QED
    BY <2>4, <2>5
<1>3. s \in S
  <2> HIDE DEF S
  <2> QED
    BY <1>1, <1>2, SequenceInduction, SMTT(40)
<1>4. QED
  BY <1>3 DEF Repaired

----------------------------------------------------------------------------
(* Compaction leaves a prefix of the dialogue and the summary. *)
IsPrefixOf(a, b) == \E n \in 0..Len(b) : a = SubSeq(b, 1, n)

LEMMA PrefixGrows ==
  ASSUME NEW E, NEW a \in Seq(E), NEW b \in Seq(E), NEW e \in E
  PROVE  /\ IsPrefixOf(b, b)
         /\ IsPrefixOf(a, b) => IsPrefixOf(a, Append(b, e))
<1>1. SubSeq(b, 1, Len(b)) = b /\ Len(b) \in 0..Len(b)
  OBVIOUS
<1>2. ASSUME NEW n \in 0..Len(b), a = SubSeq(b, 1, n)
      PROVE  n \in 0..Len(Append(b, e)) /\ a = SubSeq(Append(b, e), 1, n)
  <2>1. Len(Append(b, e)) = Len(b) + 1 /\ Len(b) \in Nat
    OBVIOUS
  <2>2. SubSeq(Append(b, e), 1, n) = SubSeq(b, 1, n)
    OBVIOUS
  <2>3. QED
    BY <1>2, <2>1, <2>2
<1>3. QED
  BY <1>1, <1>2 DEF IsPrefixOf

Leading(s) == {i \in DOMAIN s :
                 /\ HasContent(s[i])
                 /\ \A j \in 1..i : HasContent(s[j]) => s[j].kind = "user"}
OnlyUser(s) == \A j \in 1..Len(s) : HasContent(s[j]) => s[j].kind = "user"

LEMMA LeadingAppend ==
  ASSUME NEW E, NEW s \in Seq(E), NEW e \in E
  PROVE  /\ Keep(Append(s, e), Leading(Append(s, e))) =
              IF HasContent(e) /\ e.kind = "user" /\ OnlyUser(s)
                THEN Append(Keep(s, Leading(s)), e) ELSE Keep(s, Leading(s))
         /\ OnlyUser(Append(s, e)) <=> OnlyUser(s) /\ (HasContent(e) => e.kind = "user")
<1> DEFINE t == Append(s, e)
<1>1. /\ Len(s) \in Nat /\ DOMAIN s = 1..Len(s) /\ DOMAIN t = 1..(Len(s) + 1)
      /\ Len(t) = Len(s) + 1
      /\ t[Len(s) + 1] = e /\ \A n \in 1..Len(s) : t[n] = s[n]
  OBVIOUS
<1>2. Keep(t, Leading(t)) = IF Len(s) + 1 \in Leading(t) THEN Append(Keep(s, Leading(t)), e)
                                                        ELSE Keep(s, Leading(t))
  BY KeepAppend
<1> HIDE DEF t
<1>3. \A n \in 1..Len(s) : n \in Leading(s) <=> n \in Leading(t)
  <2> SUFFICES ASSUME NEW n \in 1..Len(s) PROVE n \in Leading(s) <=> n \in Leading(t)
    OBVIOUS
  <2>1. \A j \in 1..n : j \in 1..Len(s) /\ t[j] = s[j]
    BY <1>1
  <2>2. t[n] = s[n] /\ n \in DOMAIN s /\ n \in DOMAIN t
    BY <1>1
  <2>3. QED
    BY <2>1, <2>2 DEF Leading
<1>4. Keep(s, Leading(t)) = Keep(s, Leading(s))
  BY <1>3, KeepSame
<1>5. OnlyUser(t) <=> OnlyUser(s) /\ (HasContent(e) => e.kind = "user")
  <2>1. \A j \in 1..Len(t) : j \in 1..Len(s) \/ j = Len(s) + 1
    BY <1>1
  <2>2. \A j \in 1..Len(s) : j \in 1..Len(t)
    BY <1>1
  <2>3. Len(s) + 1 \in 1..Len(t)
    BY <1>1
  <2>4. QED
    BY <1>1, <2>1, <2>2, <2>3 DEF OnlyUser
<1>6. Len(s) + 1 \in Leading(t) <=> HasContent(e) /\ e.kind = "user" /\ OnlyUser(s)
  <2>1. Len(s) + 1 \in Leading(t) <=> HasContent(e) /\ OnlyUser(t)
    BY <1>1 DEF Leading, OnlyUser
  <2>2. QED
    BY <1>5, <2>1
<1>7. QED
  BY <1>2, <1>4, <1>5, <1>6 DEF t

LEMMA DialogOfLeading ==
  ASSUME NEW s \in Seq(Event)
  PROVE  IsPrefixOf(Dialog(Keep(s, Leading(s))), Dialog(s))
<1> DEFINE S == {u \in Seq(Event) :
                   /\ IsPrefixOf(Dialog(Keep(u, Leading(u))), Dialog(u))
                   /\ OnlyUser(u) => Dialog(Keep(u, Leading(u))) = Dialog(u)}
<1>1. << >> \in S
  <2>1. IsPrefixOf(<< >>, << >>)
    <3>1. Len(<< >>) = 0 /\ SubSeq(<< >>, 1, 0) = << >>
      OBVIOUS
    <3>2. QED
      BY <3>1 DEF IsPrefixOf
  <2>2. QED
    BY <2>1, KeepEmpty, DialogEmpty
<1>2. ASSUME NEW u \in Seq(Event), NEW e \in Event, u \in S PROVE Append(u, e) \in S
  <2> DEFINE t == Append(u, e)
             k == Keep(u, Leading(u))
             l == Keep(t, Leading(t))
             du == Dialog(u)
             dk == Dialog(k)
  <2>0. t \in Seq(Event)
    OBVIOUS
  <2>1. k \in Seq(Event) /\ dk \in Seq(Event) /\ du \in Seq(Event)
    <3>1. k \in Seq(Event)
      BY KeepType
    <3>2. QED
      <4> HIDE DEF k
      <4> QED
        BY <3>1, DialogType
  <2>2. IsPrefixOf(dk, du) /\ (OnlyUser(u) => dk = du)
    BY <1>2
  <2>3. Dialog(t) = IF e.kind \in TextKinds THEN Append(du, e) ELSE du
    BY DialogAppend
  <2>4. /\ l = IF HasContent(e) /\ e.kind = "user" /\ OnlyUser(u) THEN Append(k, e) ELSE k
        /\ OnlyUser(t) <=> OnlyUser(u) /\ (HasContent(e) => e.kind = "user")
    BY LeadingAppend
  <2>5. Dialog(Append(k, e)) = IF e.kind \in TextKinds THEN Append(dk, e) ELSE dk
    <3> HIDE DEF k
    <3> QED
      BY <2>1, DialogAppend DEF k
  <2>6. IsPrefixOf(Append(du, e), Append(du, e)) /\ IsPrefixOf(dk, Append(du, e))
    <3>1. Append(du, e) \in Seq(Event)
      <4> HIDE DEF du
      <4> QED
        BY <2>1
    <3>2. QED
      <4> HIDE DEF du, dk
      <4> QED
        BY <2>1, <2>2, <3>1, PrefixGrows
  <2>7. IsPrefixOf(Dialog(l), Dialog(t)) /\ (OnlyUser(t) => Dialog(l) = Dialog(t))
    <3> HIDE DEF t, l, dk, du
    <3>1. CASE HasContent(e) /\ e.kind = "user" /\ OnlyUser(u)
      <4>1. e.kind \in TextKinds /\ Dialog(l) = Append(dk, e) /\ dk = du
        BY <2>2, <2>4, <2>5, <3>1 DEF TextKinds, dk
      <4>2. QED
        BY <2>3, <2>6, <4>1
    <3>2. CASE ~(HasContent(e) /\ e.kind = "user" /\ OnlyUser(u))
      <4>1. Dialog(l) = dk
        BY <2>4, <3>2 DEF dk
      <4>2. IsPrefixOf(dk, Dialog(t))
        BY <2>2, <2>3, <2>6
      <4>3. OnlyUser(t) => dk = Dialog(t)
        <5> SUFFICES ASSUME OnlyUser(t) PROVE dk = Dialog(t)
          OBVIOUS
        <5>1. OnlyUser(u) /\ e.kind = "empty"
          BY <2>4, <3>2 DEF HasContent
        <5>2. QED
          BY <2>2, <2>3, <5>1 DEF TextKinds
      <4>4. QED
        BY <4>1, <4>2, <4>3
    <3>3. QED
      BY <3>1, <3>2
  <2>8. QED
    BY <2>0, <2>7
<1>3. s \in S
  <2> HIDE DEF S
  <2> QED
    BY <1>1, <1>2, SequenceInduction
<1>4. QED
  BY <1>3

LEMMA DialogOfCompacted ==
  ASSUME NEW s \in Seq(Event), NEW t \in Turns
  PROVE  \E n \in 0..Len(Dialog(s)) :
           Dialog(CompactedTo(s, t)) = Append(SubSeq(Dialog(s), 1, n), AgentText(t))
<1> DEFINE k == Keep(s, Leading(s))
<1>1. CompactedTo(s, t) = Append(k, AgentText(t))
  BY DEF CompactedTo, Leading
<1>2. AgentText(t) \in Event /\ AgentText(t).kind \in TextKinds
  BY DEF AgentText, Event, TextKinds
<1>3. k \in Seq(Event)
  BY KeepType
<1>4. Dialog(Append(k, AgentText(t))) = Append(Dialog(k), AgentText(t))
  <2> HIDE DEF k
  <2> QED
    BY <1>2, <1>3, DialogAppend
<1>5. PICK n \in 0..Len(Dialog(s)) : Dialog(k) = SubSeq(Dialog(s), 1, n)
  BY DialogOfLeading DEF IsPrefixOf
<1>6. QED
  BY <1>1, <1>4, <1>5

----------------------------------------------------------------------------
(* What is left of a history after any number of cuts.                     *)

(* s is what Keep leaves of t at some positions. *)
Embeds(s, t) == \E I : s = Keep(t, I)

LEMMA KeepOfKeep ==
  ASSUME NEW E, NEW t \in Seq(E), NEW I, NEW J
  PROVE  \E K : Keep(Keep(t, I), J) = Keep(t, K)
<1> DEFINE S == {u \in Seq(E) : \E K : Keep(Keep(u, I), J) = Keep(u, K)}
<1>1. << >> \in S
  BY KeepEmpty
<1>2. ASSUME NEW u \in Seq(E), NEW e \in E, u \in S PROVE Append(u, e) \in S
  <2> DEFINE k == Keep(u, I)
             n == Len(u) + 1
             w == Append(u, e)
  <2>1. PICK K : Keep(k, J) = Keep(u, K)
    BY <1>2
  <2> DEFINE L == K \cap (1..Len(u))
  <2>2. Len(u) \in Nat /\ n \notin L /\ w \in Seq(E) /\ k \in Seq(E)
    BY KeepType
  <2>3. Keep(u, L) = Keep(u, K) /\ Keep(u, L \cup {n}) = Keep(u, K)
    <3>1. \A i \in 1..Len(u) : (i \in L <=> i \in K) /\ (i \in L \cup {n} <=> i \in K)
      BY <2>2
    <3>2. Keep(u, L) = Keep(u, K)
      <4> HIDE DEF L, n
      <4> QED
        BY <3>1, KeepSame
    <3>3. Keep(u, L \cup {n}) = Keep(u, K)
      <4> DEFINE Z == L \cup {n}
      <4>1. \A i \in 1..Len(u) : i \in Z <=> i \in K
        BY <3>1
      <4>2. Keep(u, Z) = Keep(u, K)
        <5> HIDE DEF Z
        <5> QED
          BY <4>1, KeepSame
      <4>3. QED
        BY <4>2
    <3>4. QED
      BY <3>2, <3>3
  <2>4. Keep(w, L) = Keep(u, K)
    <3>1. Keep(w, L) = IF n \in L THEN Append(Keep(u, L), e) ELSE Keep(u, L)
      <4> HIDE DEF L
      <4> QED
        BY KeepAppend
    <3>2. QED
      BY <2>2, <2>3, <3>1
  <2>5. Keep(w, L \cup {n}) = Append(Keep(u, K), e)
    <3> DEFINE Z == L \cup {n}
    <3>1. Keep(w, Z) = IF n \in Z THEN Append(Keep(u, Z), e) ELSE Keep(u, Z)
      <4> HIDE DEF Z
      <4> QED
        BY KeepAppend
    <3>2. n \in Z
      OBVIOUS
    <3>3. QED
      BY <2>3, <3>1, <3>2
  <2>6. Keep(w, I) = IF n \in I THEN Append(k, e) ELSE k
    BY KeepAppend
  <2>7. Keep(Append(k, e), J) = IF Len(k) + 1 \in J THEN Append(Keep(k, J), e) ELSE Keep(k, J)
    <3> HIDE DEF k
    <3> QED
      BY <2>2, KeepAppend
  <2>8. \E M : Keep(Keep(w, I), J) = Keep(w, M)
    <3> HIDE DEF w, k, n, L
    <3>1. CASE n \in I /\ Len(k) + 1 \in J
      BY <2>1, <2>5, <2>6, <2>7, <3>1
    <3>2. CASE n \in I /\ Len(k) + 1 \notin J
      BY <2>1, <2>4, <2>6, <2>7, <3>2
    <3>3. CASE n \notin I
      BY <2>1, <2>4, <2>6, <3>3
    <3>4. QED
      BY <3>1, <3>2, <3>3
  <2>9. QED
    BY <2>2, <2>8
<1>3. t \in S
  <2> HIDE DEF S
  <2> QED
    BY <1>1, <1>2, SequenceInduction
<1>4. QED
  BY <1>3

LEMMA EmbedsItself ==
  ASSUME NEW E, NEW s \in Seq(E)
  PROVE  Embeds(s, s)
<1>1. Keep(s, 1..Len(s)) = s
  BY KeepAll
<1>2. QED
  BY <1>1 DEF Embeds

LEMMA EmbedsKept ==
  ASSUME NEW E, NEW s, NEW t \in Seq(E), Embeds(s, t), NEW J
  PROVE  Embeds(Keep(s, J), t)
BY KeepOfKeep DEF Embeds

LEMMA EmbedsAppend ==
  ASSUME NEW E, NEW s, NEW t \in Seq(E), NEW e \in E, Embeds(s, t)
  PROVE  Embeds(Append(s, e), Append(t, e))
<1>1. PICK I : s = Keep(t, I)
  BY DEF Embeds
<1> DEFINE Z == I \cup {Len(t) + 1}
<1>2. Len(t) \in Nat /\ \A i \in 1..Len(t) : i \in Z <=> i \in I
  OBVIOUS
<1>3. Len(t) + 1 \in Z
  OBVIOUS
<1>4. Keep(t, Z) = s /\ Keep(Append(t, e), Z) = Append(Keep(t, Z), e)
  <2> HIDE DEF Z
  <2> QED
    BY <1>1, <1>2, <1>3, KeepSame, KeepAppend
<1>5. QED
  BY <1>4 DEF Embeds

----------------------------------------------------------------------------
(* Pairs of calls and responses, as a history grows.                       *)

(* The call at i is answered: its response follows at once.                *)
CallAnsweredAt(s, i) == i + 1 \in ResultsIn(s) /\ AnsweredAt(s, i + 1)

(* Every response directly follows its call.                               *)
ResultsAnswer(s) == \A i \in ResultsIn(s) : AnsweredAt(s, i)

(* A response that does not follow its call has no open call before it.    *)
Mendable(s) ==
  \A i \in ResultsIn(s) :
    AnsweredAt(s, i) \/ \A j \in 1..(i - 1) : IsToolCall(s[j]) => CallAnsweredAt(s, j)

(* No call but the last event is open.                                     *)
SettledBut(s, last) ==
  \A i \in DOMAIN s :
    IsToolCall(s[i]) => CallAnsweredAt(s, i) \/ (i = Len(s) /\ s[i] = last)

LEMMA IntactSaid ==
  ASSUME NEW E, NEW s \in Seq(E)
  PROVE  PairsIntact(s) <=>
           ResultsAnswer(s) /\ \A i \in DOMAIN s : IsToolCall(s[i]) => CallAnsweredAt(s, i)
BY SMTT(40) DEF PairsIntact, ResultsAnswer, CallAnsweredAt

(* The pieces of these, for a history one event longer. *)
LEMMA AppendPieces ==
  ASSUME NEW E, NEW s \in Seq(E), NEW e \in E
  PROVE  /\ Len(s) \in Nat /\ DOMAIN s = 1..Len(s) /\ Append(s, e) \in Seq(E)
         /\ Len(Append(s, e)) = Len(s) + 1 /\ DOMAIN Append(s, e) = 1..(Len(s) + 1)
         /\ Append(s, e)[Len(s) + 1] = e
         /\ \A i \in 1..Len(s) : Append(s, e)[i] = s[i]
         /\ ResultsIn(Append(s, e)) =
              ResultsIn(s) \cup (IF IsToolResult(e) THEN {Len(s) + 1} ELSE {})
         /\ ResultsIn(s) \subseteq 1..Len(s)
         /\ \A i \in 1..Len(s) : AnsweredAt(Append(s, e), i) <=> AnsweredAt(s, i)
         /\ AnsweredAt(Append(s, e), Len(s) + 1) <=>
              s # << >> /\ IsToolCall(s[Len(s)]) /\ s[Len(s)].of = e.of
         /\ \A i \in 1..Len(s) : CallAnsweredAt(s, i) => CallAnsweredAt(Append(s, e), i)
         /\ \A i \in 1..Len(s) :
              CallAnsweredAt(Append(s, e), i) <=>
                CallAnsweredAt(s, i) \/ /\ i = Len(s) /\ IsToolResult(e)
                                        /\ IsToolCall(s[i]) /\ s[i].of = e.of
<1> DEFINE t == Append(s, e)
           N == Len(s)
<1>1. /\ N \in Nat /\ DOMAIN s = 1..N /\ t \in Seq(E)
      /\ Len(t) = N + 1 /\ DOMAIN t = 1..(N + 1) /\ t[N + 1] = e
      /\ \A i \in 1..N : t[i] = s[i]
      /\ s # << >> <=> N > 0
  OBVIOUS
<1> HIDE DEF t, N
<1>2. ResultsIn(t) = ResultsIn(s) \cup (IF IsToolResult(e) THEN {N + 1} ELSE {})
  BY <1>1 DEF ResultsIn
<1>3. ResultsIn(s) \subseteq 1..N
  BY <1>1 DEF ResultsIn
<1>4. \A i \in 1..N : AnsweredAt(t, i) <=> AnsweredAt(s, i)
  <2> SUFFICES ASSUME NEW i \in 1..N PROVE AnsweredAt(t, i) <=> AnsweredAt(s, i)
    OBVIOUS
  <2>1. i > 1 => i - 1 \in 1..N
    BY <1>1
  <2>2. QED
    BY <1>1, <2>1 DEF AnsweredAt
<1>5. AnsweredAt(t, N + 1) <=> s # << >> /\ IsToolCall(s[N]) /\ s[N].of = e.of
  <2>1. (N + 1) - 1 = N /\ (N + 1 > 1 <=> N > 0) /\ (N > 0 => N \in 1..N)
    BY <1>1
  <2>2. QED
    BY <1>1, <2>1 DEF AnsweredAt
<1>6. ASSUME NEW i \in 1..N
      PROVE  CallAnsweredAt(t, i) <=>
               \/ CallAnsweredAt(s, i)
               \/ i = N /\ IsToolResult(e) /\ IsToolCall(s[i]) /\ s[i].of = e.of
  <2>1. CASE i = N
    <3>1. N + 1 \notin ResultsIn(s) /\ s # << >>
      BY <1>1, <1>3
    <3>2. QED
      BY <1>2, <1>5, <2>1, <3>1 DEF CallAnsweredAt
  <2>2. CASE i # N
    <3>1. i + 1 \in 1..N /\ i + 1 # N + 1
      BY <1>1, <2>2
    <3>2. QED
      BY <1>2, <1>4, <2>2, <3>1 DEF CallAnsweredAt
  <2>3. QED
    BY <2>1, <2>2
<1>7. QED
  BY <1>1, <1>2, <1>3, <1>4, <1>5, <1>6 DEF t, N

(* How these grow. *)
LEMMA IntactAppendPlain ==
  ASSUME NEW E, NEW s \in Seq(E), NEW e \in E, PairsIntact(s),
         ~IsToolCall(e), ~IsToolResult(e)
  PROVE  PairsIntact(Append(s, e))
<1> DEFINE t == Append(s, e)
<1>1. t \in Seq(E)
  OBVIOUS
<1>2. ResultsAnswer(t) /\ \A i \in DOMAIN t : IsToolCall(t[i]) => CallAnsweredAt(t, i)
  <2>1. ResultsAnswer(s) /\ \A i \in DOMAIN s : IsToolCall(s[i]) => CallAnsweredAt(s, i)
    BY IntactSaid
  <2>2. ResultsAnswer(t)
    BY <2>1, AppendPieces DEF ResultsAnswer
  <2>3. ASSUME NEW i \in DOMAIN t, IsToolCall(t[i]) PROVE CallAnsweredAt(t, i)
    <3>1. i \in 1..Len(s) /\ t[i] = s[i] /\ i \in DOMAIN s
      BY <2>3, AppendPieces
    <3>2. QED
      BY <2>1, <2>3, <3>1, AppendPieces
  <2>4. QED
    BY <2>2, <2>3
<1>3. QED
  <2> HIDE DEF t
  <2> QED
    BY <1>1, <1>2, IntactSaid DEF t

LEMMA IntactAppendCall ==
  ASSUME NEW E, NEW s \in Seq(E), NEW e \in E, PairsIntact(s), IsToolCall(e)
  PROVE  ResultsAnswer(Append(s, e)) /\ SettledBut(Append(s, e), e)
<1> DEFINE t == Append(s, e)
<1>1. ResultsAnswer(s) /\ \A i \in DOMAIN s : IsToolCall(s[i]) => CallAnsweredAt(s, i)
  BY IntactSaid
<1>2. ~IsToolResult(e)
  BY DEF IsToolCall, IsToolResult
<1>3. ResultsAnswer(t)
  BY <1>1, <1>2, AppendPieces DEF ResultsAnswer
<1>4. SettledBut(t, e)
  <2> SUFFICES ASSUME NEW i \in DOMAIN t, IsToolCall(t[i])
               PROVE  CallAnsweredAt(t, i) \/ (i = Len(t) /\ t[i] = e)
    BY DEF SettledBut
  <2>1. i \in 1..Len(s) \/ i = Len(s) + 1
    BY AppendPieces
  <2>2. CASE i \in 1..Len(s)
    BY <1>1, <2>2, AppendPieces
  <2>3. CASE i = Len(s) + 1
    BY <2>3, AppendPieces
  <2>4. QED
    BY <2>1, <2>2, <2>3
<1>5. QED
  BY <1>3, <1>4

(* A response closes the open call at the end. *)
LEMMA AnswerClosesCall ==
  ASSUME NEW E, NEW s \in Seq(E), NEW e \in E, NEW last, SettledBut(s, last),
         IsToolResult(e), last.of = e.of
  PROVE  /\ \A i \in DOMAIN Append(s, e) :
              IsToolCall(Append(s, e)[i]) => CallAnsweredAt(Append(s, e), i)
         /\ Mendable(s) => Mendable(Append(s, e))
<1> DEFINE t == Append(s, e)
<1>1. ASSUME NEW i \in DOMAIN t, IsToolCall(t[i]) PROVE CallAnsweredAt(t, i)
  <2>1. i # Len(s) + 1
    BY <1>1, AppendPieces DEF IsToolCall, IsToolResult
  <2>2. i \in 1..Len(s) /\ t[i] = s[i] /\ i \in DOMAIN s
    BY <2>1, AppendPieces
  <2>3. CallAnsweredAt(s, i) \/ (i = Len(s) /\ s[i] = last)
    BY <1>1, <2>2 DEF SettledBut
  <2>4. QED
    BY <1>1, <2>2, <2>3, AppendPieces
<1>2. ASSUME Mendable(s) PROVE Mendable(t)
  <2> SUFFICES ASSUME NEW i \in ResultsIn(t)
               PROVE  \/ AnsweredAt(t, i)
                      \/ \A j \in 1..(i - 1) : IsToolCall(t[j]) => CallAnsweredAt(t, j)
    BY DEF Mendable
  <2>1. i \in DOMAIN t
    BY DEF ResultsIn
  <2>2. \A j \in 1..(i - 1) : j \in DOMAIN t
    BY <2>1, AppendPieces
  <2>3. QED
    BY <1>1, <2>2
<1>3. QED
  BY <1>1, <1>2

----------------------------------------------------------------------------
(* Histories that are cut in whole pairs; trimming.                        *)

LEMMA IntactIsMendable ==
  ASSUME NEW E, NEW s \in Seq(E), PairsIntact(s)
  PROVE  Mendable(s) /\ \A last : SettledBut(s, last)
BY IntactSaid DEF ResultsAnswer, Mendable, SettledBut

LEMMA IntactWithoutTools ==
  ASSUME NEW E, NEW s \in Seq(E), \A i \in DOMAIN s : s[i].kind \notin ToolKinds
  PROVE  PairsIntact(s)
BY DEF PairsIntact, ResultsIn, IsToolCall, IsToolResult, ToolKinds

(* A response that answers leaves no open call and no orphan.              *)
LEMMA IntactAppendAnswer ==
  ASSUME NEW E, NEW s \in Seq(E), NEW e \in E, s # << >>,
         ResultsAnswer(s), SettledBut(s, s[Len(s)]),
         IsToolCall(s[Len(s)]), IsToolResult(e), s[Len(s)].of = e.of
  PROVE  PairsIntact(Append(s, e))
<1> DEFINE t == Append(s, e)
<1>1. \A i \in DOMAIN t : IsToolCall(t[i]) => CallAnsweredAt(t, i)
  BY AnswerClosesCall
<1>2. ResultsAnswer(t)
  <2> SUFFICES ASSUME NEW i \in ResultsIn(t) PROVE AnsweredAt(t, i)
    BY DEF ResultsAnswer
  <2>1. i \in ResultsIn(s) \/ i = Len(s) + 1
    BY AppendPieces
  <2>2. CASE i \in ResultsIn(s)
    BY <2>2, AppendPieces DEF ResultsAnswer
  <2>3. CASE i = Len(s) + 1
    BY <2>3, AppendPieces
  <2>4. QED
    BY <2>1, <2>2, <2>3
<1>3. t \in Seq(E)
  OBVIOUS
<1>4. QED
  <2> HIDE DEF t
  <2> QED
    BY <1>1, <1>2, <1>3, IntactSaid DEF t

LEMMA IntactAppendPair ==
  ASSUME NEW E, NEW s \in Seq(E), NEW c \in E, NEW e \in E, PairsIntact(s),
         IsToolCall(c), IsToolResult(e), c.of = e.of
  PROVE  PairsIntact(Append(Append(s, c), e))
<1> DEFINE t == Append(s, c)
<1>1. t \in Seq(E) /\ t # << >> /\ t[Len(t)] = c
  OBVIOUS
<1>2. ResultsAnswer(t) /\ SettledBut(t, c)
  BY IntactAppendCall
<1>3. QED
  <2> HIDE DEF t
  <2>1. PairsIntact(Append(t, e))
    BY <1>1, <1>2, IntactAppendAnswer
  <2>2. QED
    BY <2>1 DEF t

----------------------------------------------------------------------------
(* Keep keeps pairs together when the positions come in pairs.             *)
KeepsPairs(s, I) ==
  \A i \in I \cap DOMAIN s :
    /\ IsToolResult(s[i]) => i - 1 \in I /\ AnsweredAt(s, i)
    /\ IsToolCall(s[i])   => i = Len(s) \/ (i + 1 \in I /\ CallAnsweredAt(s, i))

EndsInCall(s, I) == s # << >> /\ Len(s) \in I /\ IsToolCall(s[Len(s)])

KeptInPairs(E, s, I) ==
  IF EndsInCall(s, I)
    THEN \E f \in Seq(E) : PairsIntact(f) /\ Keep(s, I) = Append(f, s[Len(s)])
    ELSE PairsIntact(Keep(s, I))

LEMMA KeptPairsStep ==
  ASSUME NEW E, NEW u \in Seq(E), NEW e \in E, NEW I,
         KeepsPairs(u, I) => KeptInPairs(E, u, I), KeepsPairs(Append(u, e), I)
  PROVE  KeptInPairs(E, Append(u, e), I)
<1> DEFINE t == Append(u, e)
           n == Len(u) + 1
           k == Keep(u, I)
<1>0. /\ Len(u) \in Nat /\ t \in Seq(E) /\ t # << >> /\ Len(t) = n /\ t[n] = e
      /\ DOMAIN u = 1..Len(u) /\ DOMAIN t = 1..n /\ k \in Seq(E)
      /\ (u # << >> <=> Len(u) \in 1..Len(u))
  BY KeepType
<1>1. Keep(t, I) = IF n \in I THEN Append(k, e) ELSE k
  BY KeepAppend
<1>2. KeepsPairs(u, I)
  <2> SUFFICES ASSUME NEW i \in I \cap DOMAIN u
               PROVE  /\ IsToolResult(u[i]) => i - 1 \in I /\ AnsweredAt(u, i)
                      /\ IsToolCall(u[i])   => i = Len(u) \/ (i + 1 \in I /\ CallAnsweredAt(u, i))
    BY DEF KeepsPairs
  <2>1. i \in 1..Len(u) /\ i \in I \cap DOMAIN t /\ i # n /\ t[i] = u[i]
    BY <1>0, AppendPieces, SMTT(40)
  <2>2. /\ IsToolResult(u[i]) => i - 1 \in I /\ AnsweredAt(t, i)
        /\ IsToolCall(u[i])   => i + 1 \in I /\ CallAnsweredAt(t, i)
    <3> HIDE DEF t
    <3> QED
      BY <1>0, <2>1 DEF KeepsPairs, t
  <2>3. QED
    BY <2>1, <2>2, AppendPieces
<1>3. KeptInPairs(E, u, I)
  BY <1>2
<1>4. EndsInCall(u, I) => /\ n \in I /\ IsToolResult(e) /\ u[Len(u)].of = e.of
                          /\ IsToolCall(u[Len(u)])
  <2> SUFFICES ASSUME EndsInCall(u, I)
               PROVE  n \in I /\ IsToolResult(e) /\ u[Len(u)].of = e.of
    BY DEF EndsInCall
  <2> DEFINE i == Len(u)
  <2>1. i \in I /\ i \in 1..i /\ i \in DOMAIN t /\ IsToolCall(u[i]) /\ t[i] = u[i] /\ i # Len(t)
    <3>1. u # << >> /\ i \in I /\ IsToolCall(u[i])
      BY DEF EndsInCall
    <3>2. i \in 1..i /\ i \in DOMAIN t /\ i # Len(t)
      <4> HIDE DEF t
      <4>1. i \in Nat /\ i \in 1..i /\ DOMAIN t = 1..(i + 1) /\ Len(t) = i + 1
        BY <1>0, <3>1
      <4>2. QED
        <5> HIDE DEF i
        <5> QED
          BY <4>1
    <3>3. t[i] = u[i]
      BY <3>2, AppendPieces
    <3>4. QED
      BY <3>1, <3>2, <3>3
  <2>2. i + 1 \in I /\ CallAnsweredAt(t, i)
    <3> HIDE DEF t, i
    <3> QED
      BY <2>1 DEF KeepsPairs, t
  <2>3. ~CallAnsweredAt(u, i)
    <3>1. i + 1 \notin ResultsIn(u)
      BY <1>0 DEF ResultsIn
    <3>2. QED
      BY <3>1 DEF CallAnsweredAt
  <2>4. QED
    BY <2>1, <2>2, <2>3, AppendPieces
<1>5. ~EndsInCall(u, I) => PairsIntact(k)
  BY <1>3 DEF KeptInPairs
<1>6. CASE n \notin I
  <2>1. ~EndsInCall(u, I) /\ ~EndsInCall(t, I) /\ Keep(t, I) = k
    <3> HIDE DEF t
    <3> QED
      BY <1>0, <1>1, <1>4, <1>6 DEF EndsInCall
  <2>2. QED
    BY <1>5, <2>1 DEF KeptInPairs
<1>7. CASE n \in I /\ IsToolCall(e)
  <2>1. ~IsToolResult(e)
    BY <1>7 DEF IsToolCall, IsToolResult
  <2>2. PairsIntact(k) /\ EndsInCall(t, I) /\ Keep(t, I) = Append(k, t[Len(t)])
    <3> HIDE DEF t, k
    <3> QED
      BY <1>0, <1>1, <1>4, <1>5, <1>7, <2>1 DEF EndsInCall
  <2>3. QED
    BY <1>0, <2>2 DEF KeptInPairs
<1>8. CASE n \in I /\ IsToolResult(e)
  <2>1. AnsweredAt(t, n)
    <3> HIDE DEF t
    <3>1. n \in I \cap DOMAIN t /\ IsToolResult(t[n])
      BY <1>0, <1>8
    <3>2. QED
      BY <3>1 DEF KeepsPairs, t
  <2>2. u # << >> /\ IsToolCall(u[Len(u)]) /\ u[Len(u)].of = e.of
    BY <2>1, AppendPieces
  <2>3. n - 1 = Len(u) /\ n - 1 \in I
    <3>1. n \in I \cap DOMAIN t /\ IsToolResult(t[n])
      BY <1>0, <1>8
    <3>2. n - 1 \in I
      <4> HIDE DEF t
      <4> QED
        BY <3>1 DEF KeepsPairs, t
    <3>3. QED
      BY <1>0, <3>2
  <2>4. EndsInCall(u, I)
    BY <2>2, <2>3 DEF EndsInCall
  <2>5. PICK f \in Seq(E) : PairsIntact(f) /\ k = Append(f, u[Len(u)])
    BY <1>3, <2>4 DEF KeptInPairs
  <2>6. u[Len(u)] \in E
    BY <2>2, <1>0
  <2>7. PairsIntact(Append(k, e))
    <3> DEFINE c == u[Len(u)]
    <3>1. c \in E /\ IsToolCall(c) /\ c.of = e.of /\ k = Append(f, c)
      BY <2>2, <2>5, <2>6
    <3>2. PairsIntact(Append(Append(f, c), e))
      <4> HIDE DEF c
      <4> QED
        BY <1>8, <2>5, <3>1, IntactAppendPair
    <3>3. QED
      BY <3>1, <3>2
  <2>8. ~EndsInCall(t, I)
    <3> HIDE DEF t
    <3> QED
      BY <1>0, <1>8 DEF EndsInCall, IsToolCall, IsToolResult
  <2>9. QED
    BY <1>1, <1>8, <2>7, <2>8 DEF KeptInPairs
<1>9. CASE n \in I /\ ~IsToolCall(e) /\ ~IsToolResult(e)
  <2>1. PairsIntact(k)
    BY <1>4, <1>5, <1>9
  <2>2. PairsIntact(Append(k, e))
    <3> HIDE DEF k
    <3> QED
      BY <1>0, <1>9, <2>1, IntactAppendPlain
  <2>3. ~EndsInCall(t, I)
    <3> HIDE DEF t
    <3> QED
      BY <1>0, <1>9 DEF EndsInCall
  <2>4. QED
    BY <1>1, <1>9, <2>2, <2>3 DEF KeptInPairs
<1>10. QED
  BY <1>6, <1>7, <1>8, <1>9

LEMMA IntactOfKept ==
  ASSUME NEW E, NEW s \in Seq(E), NEW I,
         \A i \in I \cap DOMAIN s :
           /\ IsToolResult(s[i]) => i - 1 \in I /\ AnsweredAt(s, i)
           /\ IsToolCall(s[i])   => i + 1 \in I /\ CallAnsweredAt(s, i)
  PROVE  PairsIntact(Keep(s, I))
<1> DEFINE S == {u \in Seq(E) : KeepsPairs(u, I) => KeptInPairs(E, u, I)}
<1>1. << >> \in S
  <2>1. ~EndsInCall(<< >>, I) /\ PairsIntact(<< >>)
    <3>1. << >> \in Seq(E) /\ DOMAIN << >> = {}
      OBVIOUS
    <3>2. QED
      BY <3>1, IntactWithoutTools DEF EndsInCall
  <2>2. QED
    BY <2>1, KeepEmpty DEF KeptInPairs
<1>2. ASSUME NEW u \in Seq(E), NEW e \in E, u \in S PROVE Append(u, e) \in S
  <2>1. Append(u, e) \in Seq(E)
    OBVIOUS
  <2>2. QED
    BY <1>2, <2>1, KeptPairsStep
<1>3. s \in S
  <2> HIDE DEF S
  <2> QED
    BY <1>1, <1>2, SequenceInduction
<1>4. KeepsPairs(s, I)
  BY DEF KeepsPairs
<1>5. ~EndsInCall(s, I)
  <2> SUFFICES ASSUME EndsInCall(s, I) PROVE FALSE
    OBVIOUS
  <2>1. Len(s) \in I \cap DOMAIN s /\ IsToolCall(s[Len(s)]) /\ Len(s) + 1 \notin DOMAIN s
    BY DEF EndsInCall
  <2>2. Len(s) + 1 \in ResultsIn(s)
    BY <2>1 DEF CallAnsweredAt
  <2>3. QED
    BY <2>1, <2>2 DEF ResultsIn
<1>6. QED
  BY <1>3, <1>4, <1>5 DEF KeptInPairs

(* What trimming keeps is intact unless it raises. *)
LEMMA IntactOfTrimmed ==
  ASSUME NEW s \in Seq(Event), ~TrimFails(s)
  PROVE  PairsIntact(Trimmed(s))
<1> DEFINE R == RecentResults(s)
           P == R \cup {i - 1 : i \in R}
           I == {i \in DOMAIN s : i \in P \/ s[i].kind \notin ToolKinds}
<1>1. DOMAIN s = 1..Len(s) /\ Len(s) \in Nat
  OBVIOUS
<1>2. \A i \in R : i \in 1..Len(s) /\ i \in ResultsIn(s) /\ IsToolResult(s[i]) /\ AnsweredAt(s, i)
  BY <1>1 DEF RecentResults, ResultsIn, TrimFails
<1>3. ASSUME NEW i \in I \cap DOMAIN s, IsToolResult(s[i])
      PROVE  i - 1 \in I /\ AnsweredAt(s, i)
  <2>1. s[i].kind \in ToolKinds /\ ~IsToolCall(s[i])
    BY <1>3 DEF IsToolResult, IsToolCall, ToolKinds
  <2>2. i \in R \/ \E j \in R : i = j - 1
    BY <2>1
  <2>3. i \in R
    <3> SUFFICES ASSUME NEW j \in R, i = j - 1 PROVE FALSE
      BY <2>2
    <3>1. IsToolCall(s[j - 1])
      BY <1>2 DEF AnsweredAt
    <3>2. QED
      BY <2>1, <3>1
  <2>4. i > 1 /\ i \in 1..Len(s)
    BY <1>2, <2>3 DEF AnsweredAt
  <2>5. i - 1 \in DOMAIN s /\ i - 1 \in P
    BY <1>1, <2>3, <2>4
  <2>6. QED
    BY <1>2, <2>3, <2>5
<1>4. ASSUME NEW i \in I \cap DOMAIN s, IsToolCall(s[i])
      PROVE  i + 1 \in I /\ CallAnsweredAt(s, i)
  <2>1. s[i].kind \in ToolKinds /\ ~IsToolResult(s[i])
    BY <1>4 DEF IsToolResult, IsToolCall, ToolKinds
  <2>2. i \notin R
    BY <1>2, <2>1
  <2>3. PICK j \in R : i = j - 1
    BY <2>1, <2>2
  <2>4. i + 1 = j /\ j \in DOMAIN s
    BY <1>1, <1>2, <2>3
  <2>5. QED
    BY <1>2, <2>4 DEF CallAnsweredAt
<1>5. PairsIntact(Keep(s, I))
  <2> HIDE DEF I
  <2> QED
    BY <1>3, <1>4, IntactOfKept
<1>6. QED
  BY <1>5 DEF Trimmed

----------------------------------------------------------------------------
(* What validation makes of a history in which no response was lost before *)
(* an open call.                                                           *)

LEMMA MendablePrefix ==
  ASSUME NEW E, NEW s \in Seq(E), NEW e \in E, Mendable(Append(s, e))
  PROVE  Mendable(s)
<1> DEFINE t == Append(s, e)
<1> SUFFICES ASSUME NEW i \in ResultsIn(s)
             PROVE  \/ AnsweredAt(s, i)
                    \/ \A j \in 1..(i - 1) : IsToolCall(s[j]) => CallAnsweredAt(s, j)
  BY DEF Mendable
<1>1. i \in 1..Len(s) /\ i \in ResultsIn(t) /\ Len(s) \in Nat
  BY AppendPieces
<1>2. \/ AnsweredAt(t, i)
      \/ \A j \in 1..(i - 1) : IsToolCall(t[j]) => CallAnsweredAt(t, j)
  <2> HIDE DEF t
  <2> QED
    BY <1>1 DEF Mendable, t
<1>3. CASE AnsweredAt(t, i)
  BY <1>1, <1>3, AppendPieces
<1>4. CASE \A j \in 1..(i - 1) : IsToolCall(t[j]) => CallAnsweredAt(t, j)
  <2> SUFFICES ASSUME NEW j \in 1..(i - 1), IsToolCall(s[j]) PROVE CallAnsweredAt(s, j)
    OBVIOUS
  <2>1. j \in 1..Len(s) /\ j # Len(s)
    BY <1>1
  <2>2. t[j] = s[j] /\ (CallAnsweredAt(t, j) => CallAnsweredAt(s, j))
    BY <2>1, AppendPieces
  <2>3. QED
    <3> HIDE DEF t
    <3> QED
      BY <1>4, <2>2
<1>5. QED
  BY <1>2, <1>3, <1>4

(* A call without a response after which nothing has content: the one the  *)
(* scan holds back.                                                        *)
OpenCall(s, j) ==
  /\ IsToolCall(s[j])
  /\ ~CallAnsweredAt(s, j)
  /\ \A k \in (j + 1)..Len(s) : ~HasContent(s[k])

(* What the scan of s knows: it let only pairs through, and its counter is *)
(* as low as it can be only while all that is wrong is the call in hand.   *)
ScanKnows(s, acc) ==
  /\ PairsIntact(acc.events)
  /\ \/ acc.pending = << >>
     \/ \E j \in DOMAIN s : acc.pending = <<s[j]>> /\ OpenCall(s, j)
  /\ acc.errors >= Len(acc.pending)
  /\ acc.errors = Len(acc.pending) =>
       /\ ResultsAnswer(s)
       /\ \A i \in DOMAIN s :
            IsToolCall(s[i]) /\ ~CallAnsweredAt(s, i) => acc.pending # << >> /\ OpenCall(s, i)

LEMMA ScanKnowsStart == ScanKnows(<< >>, ScanStart)
<1>1. << >> \in Seq({}) /\ DOMAIN << >> = {} /\ Len(<< >>) = 0
  OBVIOUS
<1>2. PairsIntact(<< >>)
  BY <1>1, IntactWithoutTools
<1>3. ResultsAnswer(<< >>)
  BY <1>1 DEF ResultsAnswer, ResultsIn
<1>4. QED
  BY <1>1, <1>2, <1>3 DEF ScanKnows, ScanStart

LEMMA OpenCallAppend ==
  ASSUME NEW E, NEW s \in Seq(E), NEW e \in E, ~HasContent(e), NEW j \in DOMAIN s
  PROVE  /\ OpenCall(s, j) => OpenCall(Append(s, e), j)
         /\ CallAnsweredAt(Append(s, e), j) <=> CallAnsweredAt(s, j)
<1> DEFINE t == Append(s, e)
<1>1. j \in 1..Len(s) /\ t[j] = s[j] /\ ~IsToolResult(e)
  BY AppendPieces DEF HasContent, IsToolResult
<1>2. CallAnsweredAt(t, j) <=> CallAnsweredAt(s, j)
  BY <1>1, AppendPieces
<1>3. ASSUME OpenCall(s, j), NEW k \in (j + 1)..Len(t) PROVE ~HasContent(t[k])
  <2>1. k \in (j + 1)..Len(s) \/ k = Len(s) + 1
    BY <1>1, AppendPieces
  <2>2. CASE k \in (j + 1)..Len(s)
    <3>1. k \in 1..Len(s)
      BY <1>1, <2>2
    <3>2. t[k] = s[k]
      BY <3>1, AppendPieces
    <3>3. QED
      BY <1>3, <2>2, <3>2 DEF OpenCall
  <2>3. CASE k = Len(s) + 1
    BY <2>3, AppendPieces
  <2>4. QED
    BY <2>1, <2>2, <2>3
<1>4. QED
  BY <1>1, <1>2, <1>3 DEF OpenCall

LEMMA ScanKnowsNoContent ==
  ASSUME NEW s \in Seq(Event), NEW e \in Event, NEW acc \in ScanValues(Event),
         ScanKnows(s, acc), ~HasContent(e)
  PROVE  ScanKnows(Append(s, e), ScanStep(acc, e))
<1> DEFINE t == Append(s, e)
           ev == acc.events
<1>1. /\ ScanStep(acc, e).events = Append(ev, e)
      /\ ScanStep(acc, e).pending = acc.pending
      /\ ScanStep(acc, e).errors = acc.errors
  BY DEF ScanStep, ScanValues
<1>2. ~IsToolCall(e) /\ ~IsToolResult(e) /\ ev \in Seq(Event) /\ PairsIntact(ev)
  BY DEF HasContent, IsToolCall, IsToolResult, ScanValues, ScanKnows
<1>3. PairsIntact(Append(ev, e))
  <2> HIDE DEF ev
  <2> QED
    BY <1>2, IntactAppendPlain
<1>4. \/ acc.pending = << >>
      \/ \E j \in DOMAIN t : acc.pending = <<t[j]>> /\ OpenCall(t, j)
  <2> SUFFICES ASSUME NEW j \in DOMAIN s, acc.pending = <<s[j]>>, OpenCall(s, j)
               PROVE  j \in DOMAIN t /\ acc.pending = <<t[j]>> /\ OpenCall(t, j)
    BY DEF ScanKnows
  <2>1. j \in DOMAIN t /\ t[j] = s[j]
    BY AppendPieces
  <2>2. OpenCall(t, j)
    BY OpenCallAppend
  <2>3. QED
    BY <2>1, <2>2
<1>5. ASSUME acc.errors = Len(acc.pending)
      PROVE  /\ ResultsAnswer(t)
             /\ \A i \in DOMAIN t :
                  IsToolCall(t[i]) /\ ~CallAnsweredAt(t, i) => acc.pending # << >> /\ OpenCall(t, i)
  <2>1. ResultsAnswer(s) /\ \A i \in DOMAIN s :
            IsToolCall(s[i]) /\ ~CallAnsweredAt(s, i) => acc.pending # << >> /\ OpenCall(s, i)
    BY <1>5 DEF ScanKnows
  <2>2. ResultsAnswer(t)
    BY <1>2, <2>1, AppendPieces DEF ResultsAnswer
  <2>3. ASSUME NEW i \in DOMAIN t, IsToolCall(t[i]), ~CallAnsweredAt(t, i)
        PROVE  acc.pending # << >> /\ OpenCall(t, i)
    <3>1. i \in DOMAIN s /\ t[i] = s[i]
      BY <1>2, <2>3, AppendPieces
    <3>2. ~CallAnsweredAt(s, i)
      BY <2>3, <3>1, OpenCallAppend
    <3>3. QED
      BY <2>1, <2>3, <3>1, <3>2, OpenCallAppend
  <2>4. QED
    BY <2>2, <2>3
<1>6. acc.errors >= Len(acc.pending)
  BY DEF ScanKnows
<1>7. QED
  <2> HIDE DEF t, ev
  <2>1. ScanKnows(t, ScanStep(acc, e))
    BY <1>1, <1>3, <1>4, <1>5, <1>6 DEF ScanKnows
  <2>2. QED
    BY <2>1 DEF t

LEMMA ScanKnowsResult ==
  ASSUME NEW s \in Seq(Event), NEW e \in Event, NEW acc \in ScanValues(Event),
         ScanKnows(s, acc), HasContent(e), IsToolResult(e), Mendable(Append(s, e))
  PROVE  ScanKnows(Append(s, e), ScanStep(acc, e))
<1> DEFINE t == Append(s, e)
           ev == acc.events
           N == Len(s)
<1>0. /\ acc.events \in Seq(Event) /\ acc.errors \in Int /\ acc.pending \in Seq(Event)
      /\ ScanStep(acc, e) = ScanResult(acc, e)
      /\ PairsIntact(ev) /\ acc.errors >= Len(acc.pending) /\ N \in Nat
  BY DEF ScanValues, ScanStep, ScanKnows
<1>1. CASE acc.pending = << >>
  <2>1. /\ ScanStep(acc, e).events = ev
        /\ ScanStep(acc, e).pending = << >>
        /\ ScanStep(acc, e).errors = acc.errors + 1
    BY <1>0, <1>1 DEF ScanResult, ScanValues
  <2>2. acc.errors + 1 >= 0 /\ acc.errors + 1 # 0 /\ Len(<< >>) = 0
    BY <1>0, <1>1
  <2>3. QED
    <3> HIDE DEF t, ev
    <3> QED
      BY <1>0, <2>1, <2>2 DEF ScanKnows
<1>2. CASE acc.pending # << >>
  <2>1. PICK j \in DOMAIN s : acc.pending = <<s[j]>> /\ OpenCall(s, j)
    BY <1>2 DEF ScanKnows
  <2>2. AnsweredAt(t, N + 1)
    <3>1. N + 1 \in ResultsIn(t) /\ (N + 1) - 1 = N /\ j \in 1..N /\ t[j] = s[j]
      BY <1>0, AppendPieces
    <3>2. \/ AnsweredAt(t, N + 1)
          \/ \A i \in 1..N : IsToolCall(t[i]) => CallAnsweredAt(t, i)
      <4> HIDE DEF t, N
      <4> QED
        BY <3>1 DEF Mendable, t
    <3>3. CASE \A i \in 1..N : IsToolCall(t[i]) => CallAnsweredAt(t, i)
      <4>1. CallAnsweredAt(t, j) /\ ~CallAnsweredAt(s, j)
        <5> HIDE DEF t, N
        <5> QED
          BY <2>1, <3>1, <3>3 DEF OpenCall
      <4>2. j = N /\ IsToolCall(s[j]) /\ s[j].of = e.of
        BY <3>1, <4>1, AppendPieces
      <4>3. s # << >>
        BY <3>1
      <4>4. QED
        BY <4>2, <4>3, AppendPieces
    <3>4. QED
      BY <3>2, <3>3
  <2>3. s # << >> /\ IsToolCall(s[N]) /\ s[N].of = e.of
    BY <2>2, AppendPieces
  <2>4. j = N
    <3> SUFFICES ASSUME j # N PROVE FALSE
      OBVIOUS
    <3>1. N \in (j + 1)..Len(s)
      BY <1>0
    <3>2. HasContent(s[N])
      BY <2>3 DEF IsToolCall, HasContent
    <3>3. QED
      BY <2>1, <3>1, <3>2 DEF OpenCall
  <2> DEFINE c == s[N]
  <2>5. c \in Event /\ acc.pending = <<c>> /\ Len(acc.pending) = 1 /\ ev \o acc.pending = Append(ev, c)
    BY <1>0, <2>1, <2>3, <2>4
  <2>6. /\ ScanStep(acc, e).events = Append(Append(ev, c), e)
        /\ ScanStep(acc, e).pending = << >>
        /\ ScanStep(acc, e).errors = acc.errors - 1
    <3> HIDE DEF c, ev
    <3>1. ScanResult(acc, e) = [events  |-> Append(ev \o acc.pending, e),
                                pending |-> << >>,
                                errors  |-> acc.errors - 1]
      BY <1>2 DEF ScanResult, ev
    <3>2. ev \o acc.pending = Append(ev, c)
      BY <2>5
    <3>3. ScanStep(acc, e) = [events  |-> Append(Append(ev, c), e),
                              pending |-> << >>,
                              errors  |-> acc.errors - 1]
      BY <1>0, <3>1, <3>2, Zenon
    <3>4. QED
      BY <3>3
  <2>7. PairsIntact(Append(Append(ev, c), e))
    <3> HIDE DEF c, ev
    <3> QED
      BY <1>0, <2>3, <2>5, IntactAppendPair DEF c, ev
  <2>8. ASSUME acc.errors - 1 = 0
        PROVE  PairsIntact(t)
    <3>1. acc.errors = Len(acc.pending)
      BY <1>0, <2>5, <2>8
    <3>2. ResultsAnswer(s) /\ \A i \in DOMAIN s :
            IsToolCall(s[i]) /\ ~CallAnsweredAt(s, i) => OpenCall(s, i)
      BY <3>1 DEF ScanKnows
    <3>3. SettledBut(s, s[N])
      <4> SUFFICES ASSUME NEW i \in DOMAIN s, IsToolCall(s[i]), ~CallAnsweredAt(s, i), i # N
                   PROVE  FALSE
        BY DEF SettledBut
      <4>1. OpenCall(s, i) /\ N \in (i + 1)..Len(s)
        BY <1>0, <3>2
      <4>2. HasContent(s[N])
        BY <2>3 DEF IsToolCall, HasContent
      <4>3. QED
        BY <4>1, <4>2 DEF OpenCall
    <3>4. QED
      BY <2>3, <3>2, <3>3, IntactAppendAnswer
  <2>9. t \in Seq(Event)
    OBVIOUS
  <2>10. acc.errors - 1 >= Len(<< >>) /\ Len(<< >>) = 0
    BY <1>0, <2>5
  <2>11. QED
    <3> HIDE DEF t, ev, c, N
    <3>1. acc.errors - 1 = Len(<< >>) =>
            /\ ResultsAnswer(t)
            /\ \A i \in DOMAIN t : IsToolCall(t[i]) => CallAnsweredAt(t, i)
      BY <2>8, <2>9, <2>10, IntactSaid
    <3>2. ScanKnows(t, ScanStep(acc, e))
      BY <2>6, <2>7, <2>10, <3>1 DEF ScanKnows
    <3>3. QED
      BY <3>2 DEF t
<1>3. QED
  BY <1>1, <1>2

LEMMA ScanKnowsCall ==
  ASSUME NEW s \in Seq(Event), NEW e \in Event, NEW acc \in ScanValues(Event),
         ScanKnows(s, acc), HasContent(e), ~IsToolResult(e), IsToolCall(e)
  PROVE  ScanKnows(Append(s, e), ScanStep(acc, e))
<1> DEFINE t == Append(s, e)
           ev == acc.events
           N == Len(s)
<1>0. /\ acc.events \in Seq(Event) /\ acc.errors \in Int /\ acc.pending \in Seq(Event)
      /\ ScanStep(acc, e) = ScanCall(acc, e)
      /\ PairsIntact(ev) /\ acc.errors >= Len(acc.pending) /\ N \in Nat /\ Len(acc.pending) \in Nat
  BY DEF ScanValues, ScanStep, ScanKnows
<1>1. /\ ScanStep(acc, e).events = ev
      /\ ScanStep(acc, e).pending = <<e>>
      /\ ScanStep(acc, e).errors = acc.errors + 1 + Len(acc.pending)
      /\ Len(<<e>>) = 1 /\ <<e>> # << >>
  BY <1>0 DEF ScanCall
<1>2. N + 1 \in DOMAIN t /\ t[N + 1] = e /\ Len(t) = N + 1 /\ DOMAIN t = 1..(N + 1)
      /\ t \in Seq(Event)
  BY <1>0, AppendPieces
<1>3. OpenCall(t, N + 1)
  <2>1. ~CallAnsweredAt(t, N + 1)
    <3> HIDE DEF t
    <3>1. N + 1 + 1 \notin DOMAIN t
      BY <1>0, <1>2
    <3>2. QED
      BY <3>1 DEF CallAnsweredAt, ResultsIn
  <2>2. \A k \in (N + 1 + 1)..Len(t) : FALSE
    <3> HIDE DEF t
    <3> QED
      BY <1>0, <1>2
  <2>3. QED
    <3> HIDE DEF t, N
    <3> QED
      BY <1>2, <2>1, <2>2 DEF OpenCall
<1>4. ASSUME acc.errors + 1 + Len(acc.pending) = 1
      PROVE  /\ ResultsAnswer(t)
             /\ \A i \in DOMAIN t : IsToolCall(t[i]) /\ ~CallAnsweredAt(t, i) => OpenCall(t, i)
  <2>1. acc.errors = Len(acc.pending) /\ Len(acc.pending) = 0
    BY <1>0, <1>4
  <2>2. acc.pending = << >>
    BY <1>0, <2>1
  <2>3. ResultsAnswer(s) /\ \A i \in DOMAIN s : IsToolCall(s[i]) => CallAnsweredAt(s, i)
    BY <2>1, <2>2 DEF ScanKnows
  <2>4. PairsIntact(s)
    BY <2>3, IntactSaid
  <2>5. ResultsAnswer(t) /\ SettledBut(t, e)
    BY <2>4, IntactAppendCall
  <2>6. QED
    <3> HIDE DEF t, N
    <3> QED
      BY <1>2, <1>3, <2>5 DEF SettledBut
<1>5. acc.errors + 1 + Len(acc.pending) >= 1
  BY <1>0
<1>6. QED
  <2> HIDE DEF t, ev, N
  <2>1. ScanKnows(t, ScanStep(acc, e))
    BY <1>0, <1>1, <1>2, <1>3, <1>4, <1>5 DEF ScanKnows
  <2>2. QED
    BY <2>1 DEF t

LEMMA ScanKnowsPlain ==
  ASSUME NEW s \in Seq(Event), NEW e \in Event, NEW acc \in ScanValues(Event),
         ScanKnows(s, acc), HasContent(e), ~IsToolResult(e), ~IsToolCall(e)
  PROVE  ScanKnows(Append(s, e), ScanStep(acc, e))
<1> DEFINE t == Append(s, e)
           ev == acc.events
<1>0. /\ ev \in Seq(Event) /\ acc.errors \in Int /\ acc.pending \in Seq(Event)
      /\ ScanStep(acc, e) = ScanPlain(acc, e)
      /\ PairsIntact(ev) /\ acc.errors >= Len(acc.pending) /\ Len(acc.pending) \in Nat
      /\ t \in Seq(Event) /\ Len(<< >>) = 0
  BY DEF ScanValues, ScanStep, ScanKnows
<1>1. /\ ScanStep(acc, e).events = Append(ev, e)
      /\ ScanStep(acc, e).pending = << >>
      /\ ScanStep(acc, e).errors = acc.errors + Len(acc.pending)
  BY <1>0 DEF ScanPlain
<1>2. PairsIntact(Append(ev, e))
  <2> HIDE DEF ev
  <2> QED
    BY <1>0, IntactAppendPlain
<1>3. ASSUME acc.errors + Len(acc.pending) = 0
      PROVE  PairsIntact(t)
  <2>1. acc.errors = Len(acc.pending) /\ Len(acc.pending) = 0
    BY <1>0, <1>3
  <2>2. acc.pending = << >>
    BY <1>0, <2>1
  <2>3. ResultsAnswer(s) /\ \A i \in DOMAIN s : IsToolCall(s[i]) => CallAnsweredAt(s, i)
    BY <2>1, <2>2 DEF ScanKnows
  <2>4. PairsIntact(s)
    BY <2>3, IntactSaid
  <2>5. QED
    BY <2>4, IntactAppendPlain
<1>4. acc.errors + Len(acc.pending) >= 0
  BY <1>0
<1>5. QED
  <2> HIDE DEF t, ev
  <2>1. acc.errors + Len(acc.pending) = 0 =>
          ResultsAnswer(t) /\ \A i \in DOMAIN t : IsToolCall(t[i]) => CallAnsweredAt(t, i)
    BY <1>0, <1>3, IntactSaid
  <2>2. ScanKnows(t, ScanStep(acc, e))
    BY <1>0, <1>1, <1>2, <1>4, <2>1 DEF ScanKnows
  <2>3. QED
    BY <2>2 DEF t

(* Validation mends a mendable history, and reports no error only on one   *)
(* that needs no mending.                                                  *)
LEMMA ValidationMends ==
  ASSUME NEW s \in Seq(Event), Mendable(s)
  PROVE  PairsIntact(Repaired(s)) /\ (~NeedsRepair(s) => PairsIntact(s))
<1> DEFINE S == {u \in Seq(Event) : Mendable(u) => ScanKnows(u, Scan(u))}
<1>1. << >> \in S
  BY ScanKnowsStart, ScanEmpty
<1>2. ASSUME NEW u \in Seq(Event), NEW e \in Event, u \in S PROVE Append(u, e) \in S
  <2> DEFINE t == Append(u, e)
             a == Scan(u)
  <2>1. t \in Seq(Event) /\ a \in ScanValues(Event) /\ Scan(t) = ScanStep(a, e)
    BY ScanType, ScanAppend
  <2>2. ASSUME Mendable(t) PROVE ScanKnows(t, Scan(t))
    <3>1. ScanKnows(u, a)
      BY <1>2, <2>2, MendablePrefix
    <3>2. ScanKnows(Append(u, e), ScanStep(a, e))
      <4> HIDE DEF a
      <4>1. CASE ~HasContent(e)
        BY <2>1, <3>1, <4>1, ScanKnowsNoContent
      <4>2. CASE HasContent(e) /\ IsToolResult(e)
        BY <2>1, <2>2, <3>1, <4>2, ScanKnowsResult
      <4>3. CASE HasContent(e) /\ ~IsToolResult(e) /\ IsToolCall(e)
        BY <2>1, <3>1, <4>3, ScanKnowsCall
      <4>4. CASE HasContent(e) /\ ~IsToolResult(e) /\ ~IsToolCall(e)
        BY <2>1, <3>1, <4>4, ScanKnowsPlain
      <4>5. QED
        BY <4>1, <4>2, <4>3, <4>4
    <3>3. QED
      BY <2>1, <3>2
  <2>3. QED
    BY <2>1, <2>2
<1>3. s \in S
  <2> HIDE DEF S
  <2> QED
    BY <1>1, <1>2, SequenceInduction
<1>4. ScanKnows(s, Scan(s))
  BY <1>3
<1>5. ASSUME Scan(s).errors = 0 PROVE PairsIntact(s)
  <2>1. Scan(s).pending \in Seq(Event) /\ Scan(s).errors >= Len(Scan(s).pending)
    BY <1>4, ScanType DEF ScanKnows, ScanValues
  <2>2. Len(Scan(s).pending) = 0 /\ Scan(s).pending = << >>
    BY <1>5, <2>1
  <2>3. ResultsAnswer(s) /\ \A i \in DOMAIN s : IsToolCall(s[i]) => CallAnsweredAt(s, i)
    BY <1>4, <1>5, <2>2 DEF ScanKnows
  <2>4. QED
    BY <2>3, IntactSaid
<1>6. QED
  BY <1>4, <1>5 DEF ScanKnows, Repaired, NeedsRepair

----------------------------------------------------------------------------
(* The history of a run that is waiting for a response.                    *)

LEMMA MendableAppend ==
  ASSUME NEW E, NEW s \in Seq(E), NEW e \in E, Mendable(s), ~IsToolResult(e)
  PROVE  Mendable(Append(s, e))
<1> DEFINE t == Append(s, e)
<1> SUFFICES ASSUME NEW i \in ResultsIn(t)
             PROVE  AnsweredAt(t, i) \/ \A j \in 1..(i - 1) : IsToolCall(t[j]) => CallAnsweredAt(t, j)
  BY DEF Mendable
<1>1. i \in ResultsIn(s) /\ i \in 1..Len(s) /\ Len(s) \in Nat
  BY AppendPieces
<1>2. AnsweredAt(s, i) => AnsweredAt(t, i)
  BY <1>1, AppendPieces
<1>3. ASSUME NEW j \in 1..(i - 1), IsToolCall(t[j]),
             \A k \in 1..(i - 1) : IsToolCall(s[k]) => CallAnsweredAt(s, k)
      PROVE  CallAnsweredAt(t, j)
  <2>1. j \in 1..Len(s)
    BY <1>1
  <2>2. t[j] = s[j]
    BY <2>1, AppendPieces
  <2>3. CallAnsweredAt(s, j)
    BY <1>3, <2>2
  <2>4. QED
    BY <2>1, <2>3, AppendPieces
<1>4. QED
  BY <1>1, <1>2, <1>3 DEF Mendable

(* A history whose last event is no call has no open call, so that any     *)
(* event may follow.                                                       *)
LEMMA SettledAppend ==
  ASSUME NEW E, NEW s \in Seq(E), NEW e \in E, NEW last, SettledBut(s, last), ~IsToolCall(last)
  PROVE  SettledBut(Append(s, e), e)
<1> DEFINE t == Append(s, e)
<1> SUFFICES ASSUME NEW i \in DOMAIN t, IsToolCall(t[i])
             PROVE  CallAnsweredAt(t, i) \/ (i = Len(t) /\ t[i] = e)
  BY DEF SettledBut
<1>1. Len(t) = Len(s) + 1 /\ DOMAIN t = 1..(Len(s) + 1) /\ DOMAIN s = 1..Len(s) /\ Len(s) \in Nat
  BY AppendPieces
<1>2. CASE i = Len(s) + 1
  BY <1>1, <1>2, AppendPieces
<1>3. CASE i # Len(s) + 1
  <2>1. i \in 1..Len(s)
    BY <1>1, <1>3
  <2>2. t[i] = s[i]
    BY <2>1, AppendPieces
  <2>3. CallAnsweredAt(s, i)
    BY <1>1, <2>1, <2>2 DEF SettledBut
  <2>4. QED
    BY <2>1, <2>3, AppendPieces
<1>4. QED
  BY <1>2, <1>3

LEMMA SettledIsIntact ==
  ASSUME NEW E, NEW s \in Seq(E), NEW last, ResultsAnswer(s), SettledBut(s, last),
         ~IsToolCall(last)
  PROVE  PairsIntact(s)
BY IntactSaid DEF SettledBut

(* Without the open call at its end such a history is intact.              *)
LEMMA IntactBeforeCall ==
  ASSUME NEW E, NEW f \in Seq(E), NEW c \in E, IsToolCall(c),
         ResultsAnswer(Append(f, c)), SettledBut(Append(f, c), c)
  PROVE  PairsIntact(f)
<1> DEFINE t == Append(f, c)
<1>1. /\ Len(t) = Len(f) + 1 /\ DOMAIN t = 1..(Len(f) + 1) /\ DOMAIN f = 1..Len(f)
      /\ Len(f) \in Nat /\ ResultsIn(f) \subseteq 1..Len(f)
  BY AppendPieces
<1>2. ~IsToolResult(c)
  BY DEF IsToolCall, IsToolResult
<1>3. ResultsIn(t) = ResultsIn(f)
  <2>1. ResultsIn(t) = ResultsIn(f) \cup (IF IsToolResult(c) THEN {Len(f) + 1} ELSE {})
    BY AppendPieces
  <2> HIDE DEF t
  <2>2. QED
    BY <1>2, <2>1
<1>4. ASSUME NEW i \in ResultsIn(f) PROVE AnsweredAt(f, i)
  <2>1. AnsweredAt(t, i) /\ i \in 1..Len(f)
    BY <1>1, <1>3, <1>4 DEF ResultsAnswer
  <2>2. QED
    BY <2>1, AppendPieces
<1>5. ASSUME NEW i \in DOMAIN f, IsToolCall(f[i]) PROVE CallAnsweredAt(f, i)
  <2>1. i \in 1..Len(f) /\ i # Len(t) /\ i \in DOMAIN t
    BY <1>1, <1>5
  <2>2. t[i] = f[i]
    BY <2>1, AppendPieces
  <2>3. CallAnsweredAt(t, i)
    BY <1>5, <2>1, <2>2 DEF SettledBut
  <2>4. i + 1 \in ResultsIn(f)
    BY <1>3, <2>3 DEF CallAnsweredAt
  <2>5. QED
    BY <1>4, <2>4 DEF CallAnsweredAt
<1>6. QED
  BY <1>4, <1>5, IntactSaid DEF ResultsAnswer

----------------------------------------------------------------------------
(* How many responses trimming keeps.                                      *)

LEMMA ResultsFinite ==
  ASSUME NEW E, NEW s \in Seq(E)
  PROVE  IsFiniteSet(ResultsIn(s)) /\ ResultsIn(s) \subseteq 1..Len(s)
<1>1. ResultsIn(s) \subseteq 1..Len(s) /\ Len(s) \in Nat
  BY DEF ResultsIn
<1>2. IsFiniteSet(1..Len(s))
  BY <1>1, FS_Interval
<1>3. QED
  BY <1>1, <1>2, FS_Subset

(* Keep keeps a response for each position of one it is given.             *)
LEMMA KeptResults ==
  ASSUME NEW E, NEW s \in Seq(E), NEW I
  PROVE  Cardinality(ResultsIn(Keep(s, I))) = Cardinality(I \cap ResultsIn(s))
<1> DEFINE S == {u \in Seq(E) :
                   Cardinality(ResultsIn(Keep(u, I))) = Cardinality(I \cap ResultsIn(u))}
<1>1. << >> \in S
  <2>1. ResultsIn(<< >>) = {} /\ << >> \in Seq(E)
    BY DEF ResultsIn
  <2>2. ResultsIn(Keep(<< >>, I)) = {} /\ I \cap ResultsIn(<< >>) = {}
    BY <2>1, KeepEmpty
  <2>3. QED
    BY <2>1, <2>2
<1>2. ASSUME NEW u \in Seq(E), NEW e \in E, u \in S PROVE Append(u, e) \in S
  <2> DEFINE t == Append(u, e)
             k == Keep(u, I)
             n == Len(u) + 1
             l == Len(k) + 1
             A == ResultsIn(u)
             B == ResultsIn(k)
  <2>1. /\ t \in Seq(E) /\ k \in Seq(E) /\ Len(u) \in Nat /\ Len(k) \in Nat
        /\ Keep(t, I) = IF n \in I THEN Append(k, e) ELSE k
    BY KeepType, KeepAppend
  <2> HIDE DEF k
  <2>2. /\ ResultsIn(t) = A \cup (IF IsToolResult(e) THEN {n} ELSE {})
        /\ ResultsIn(Append(k, e)) = B \cup (IF IsToolResult(e) THEN {l} ELSE {})
    BY <2>1, AppendPieces
  <2>3. IsFiniteSet(A) /\ IsFiniteSet(B) /\ n \notin A /\ l \notin B
    <3>1. IsFiniteSet(A) /\ A \subseteq 1..Len(u) /\ IsFiniteSet(B) /\ B \subseteq 1..Len(k)
      BY <2>1, ResultsFinite
    <3>2. n \notin 1..Len(u) /\ l \notin 1..Len(k)
      BY <2>1
    <3>3. QED
      BY <3>1, <3>2
  <2>4. Cardinality(B) = Cardinality(I \cap A) /\ IsFiniteSet(I \cap A)
    BY <1>2, <2>3, FS_Subset DEF k
  <2> HIDE DEF t, n, l, A, B
  <2>5. Cardinality(ResultsIn(Keep(t, I))) = Cardinality(I \cap ResultsIn(t))
    <3>1. CASE n \in I /\ IsToolResult(e)
      <4>1. ResultsIn(Keep(t, I)) = B \cup {l} /\ I \cap ResultsIn(t) = (I \cap A) \cup {n}
        BY <2>1, <2>2, <3>1
      <4>2. /\ Cardinality(B \cup {l}) = Cardinality(B) + 1
            /\ Cardinality((I \cap A) \cup {n}) = Cardinality(I \cap A) + 1
        BY <2>3, <2>4, FS_AddElement
      <4>3. QED
        BY <2>4, <4>1, <4>2
    <3>2. CASE n \in I /\ ~IsToolResult(e)
      <4>1. ResultsIn(Keep(t, I)) = B /\ ResultsIn(t) = A
        BY <2>1, <2>2, <3>2
      <4>2. QED
        BY <2>4, <4>1
    <3>3. CASE n \notin I
      <4>1. Keep(t, I) = k /\ I \cap ResultsIn(t) = I \cap A
        BY <2>1, <2>2, <3>3
      <4>2. QED
        BY <2>4, <4>1 DEF B
    <3>4. QED
      BY <3>1, <3>2, <3>3
  <2>6. QED
    BY <2>1, <2>5 DEF t
<1>3. s \in S
  <2> HIDE DEF S
  <2> QED
    BY <1>1, <1>2, SequenceInduction
<1>4. QED
  BY <1>3

(* The recent responses are as many as a session may have.                 *)
LEMMA FewAreRecent ==
  ASSUME NEW E, NEW s \in Seq(E)
  PROVE  /\ IsFiniteSet(RecentResults(s))
         /\ Cardinality(RecentResults(s)) <= MAX_TOOL_CALLS_IN_SESSION
<1> DEFINE A == ResultsIn(s)
           R == RecentResults(s)
           Later(i) == {j \in A : j > i}
           N == Len(s)
<1>1. IsFiniteSet(A) /\ A \subseteq 1..N /\ N \in Nat
  BY ResultsFinite
<1>2. R \subseteq A /\ \A i \in R : Cardinality(Later(i)) < MAX_TOOL_CALLS_IN_SESSION
  BY DEF RecentResults
<1>3. IsFiniteSet(R) /\ MAX_TOOL_CALLS_IN_SESSION \in Nat \ {0}
  BY <1>1, <1>2, FS_Subset, SessionEventsAssumption
<1> HIDE DEF A, R, N
<1>4. CASE R = {}
  <2>1. Cardinality(R) = 0
    BY <1>4, FS_EmptySet
  <2>2. QED
    BY <1>3, <2>1 DEF R
<1>5. CASE R # {}
  <2> DEFINE C == {(N + 1) - i : i \in R}
  <2>1. C \in SUBSET (1..N) /\ C # {} /\ \A i \in R : i \in 1..N
    <3>1. \A i \in R : i \in 1..N
      BY <1>1, <1>2
    <3>2. \A i \in 1..N : (N + 1) - i \in 1..N
      BY <1>1
    <3>3. QED
      BY <1>5, <3>1, <3>2
  <2>2. \E c \in C : \A d \in C : d <= c
    <3> HIDE DEF C
    <3> QED
      BY <1>1, <2>1, LastPlace
  <2>3. PICK m \in R : \A i \in R : m <= i
    <3>1. PICK m \in R : \A d \in C : d <= (N + 1) - m
      BY <2>2
    <3>2. ASSUME NEW i \in R PROVE m <= i
      <4>1. (N + 1) - i <= (N + 1) - m
        BY <3>1
      <4>2. QED
        BY <1>1, <2>1, <4>1
    <3>3. QED
      BY <3>2
  <2>4. R \subseteq Later(m) \cup {m}
    BY <1>1, <1>2, <2>1, <2>3
  <2>5. IsFiniteSet(Later(m)) /\ Cardinality(Later(m)) < MAX_TOOL_CALLS_IN_SESSION
        /\ Cardinality(Later(m)) \in Nat
    BY <1>1, <1>2, FS_Subset, FS_CardinalityType
  <2> DEFINE L == Later(m)
  <2> HIDE DEF Later, L
  <2>6. /\ IsFiniteSet(L \cup {m})
        /\ Cardinality(L \cup {m}) <= Cardinality(L) + 1
    <3>1. IsFiniteSet(L) /\ Cardinality(L) \in Nat
      BY <2>5 DEF L
    <3>2. /\ IsFiniteSet(L \cup {m})
          /\ Cardinality(L \cup {m}) = IF m \in L THEN Cardinality(L) ELSE Cardinality(L) + 1
      BY <3>1, FS_AddElement
    <3>3. QED
      BY <3>1, <3>2
  <2>7. Cardinality(R) <= Cardinality(L \cup {m}) /\ Cardinality(R) \in Nat
        /\ Cardinality(L \cup {m}) \in Nat
    BY <1>3, <2>4, <2>6, FS_Subset, FS_CardinalityType DEF L
  <2>8. Cardinality(R) <= MAX_TOOL_CALLS_IN_SESSION
    <3>1. Cardinality(L) \in Nat /\ Cardinality(L) < MAX_TOOL_CALLS_IN_SESSION
      BY <2>5 DEF L
    <3>2. QED
      BY <1>3, <2>6, <2>7, <3>1
  <2>9. QED
    BY <1>3, <2>8 DEF R
<1>6. QED
  BY <1>4, <1>5

(* What trimming returns is within the limit.                              *)
LEMMA TrimmedIsWithinLimit ==
  ASSUME NEW s \in Seq(Event), ~TrimFails(s)
  PROVE  ~TooManyTools(Trimmed(s))
<1> DEFINE R == RecentResults(s)
           I == {i \in DOMAIN s : i \in R \cup {j - 1 : j \in R} \/ s[i].kind \notin ToolKinds}
<1>1. R \subseteq ResultsIn(s) /\ \A i \in R : AnsweredAt(s, i)
  BY DEF RecentResults, TrimFails
<1>2. I \cap ResultsIn(s) = R
  <2>1. ASSUME NEW i \in I, i \in ResultsIn(s) PROVE i \in R
    <3>1. IsToolResult(s[i]) /\ s[i].kind \in ToolKinds /\ ~IsToolCall(s[i])
      BY <2>1 DEF ResultsIn, IsToolResult, ToolKinds, IsToolCall
    <3>2. i \in R \/ \E j \in R : i = j - 1
      BY <3>1
    <3>3. \A j \in R : IsToolCall(s[j - 1])
      BY <1>1 DEF AnsweredAt
    <3>4. QED
      BY <3>1, <3>2, <3>3
  <2>2. R \subseteq I
    BY <1>1 DEF ResultsIn
  <2>3. QED
    BY <1>1, <2>1, <2>2
<1>3. Trimmed(s) = Keep(s, I)
  BY DEF Trimmed
<1>4. Cardinality(ResultsIn(Keep(s, I))) = Cardinality(R)
  <2> HIDE DEF I
  <2> QED
    BY <1>2, KeptResults
<1>5. Cardinality(R) <= MAX_TOOL_CALLS_IN_SESSION /\ Cardinality(R) \in Nat
  BY FewAreRecent, FS_CardinalityType
<1>6. QED
  <2> HIDE DEF I, R
  <2> QED
    BY <1>3, <1>4, <1>5, SessionEventsAssumption DEF TooManyTools

(* An intact history can be trimmed.                                       *)
LEMMA IntactTrims ==
  ASSUME NEW s \in Seq(Event), PairsIntact(s)
  PROVE  ~TrimFails(s) /\ PairsIntact(Trimmed(s)) /\ ~TooManyTools(Trimmed(s))
<1>1. ~TrimFails(s)
  BY DEF PairsIntact, TrimFails, RecentResults
<1>2. QED
  BY <1>1, IntactOfTrimmed, TrimmedIsWithinLimit

(* Whatever history validation can mend it leaves one that can be trimmed. *)
LEMMA ValidatedTrims ==
  ASSUME NEW s \in Seq(Event), Mendable(s)
  PROVE  LET valid == Validated(s) IN
           ~TrimFails(valid) /\ PairsIntact(Trimmed(valid)) /\ ~TooManyTools(Trimmed(valid))
<1>1. Validated(s) \in Seq(Event) /\ PairsIntact(Validated(s))
  BY ValidationMends, ScanType DEF Validated
<1>2. QED
  BY <1>1, IntactTrims

----------------------------------------------------------------------------
(* Truncation leaves a history that validation can mend.                   *)

LEMMA MendableAppendResult ==
  ASSUME NEW E, NEW s \in Seq(E), NEW e \in E, Mendable(s), IsToolResult(e),
         \/ s # << >> /\ IsToolCall(s[Len(s)]) /\ s[Len(s)].of = e.of
         \/ \A j \in 1..Len(s) : IsToolCall(s[j]) => CallAnsweredAt(s, j)
  PROVE  Mendable(Append(s, e))
<1> DEFINE t == Append(s, e)
<1> SUFFICES ASSUME NEW i \in ResultsIn(t)
             PROVE  AnsweredAt(t, i) \/ \A j \in 1..(i - 1) : IsToolCall(t[j]) => CallAnsweredAt(t, j)
  BY DEF Mendable
<1>1. (i \in ResultsIn(s) /\ i \in 1..Len(s)) \/ i = Len(s) + 1
  BY AppendPieces
<1>2. Len(s) \in Nat
  OBVIOUS
<1>3. ASSUME NEW j \in 1..Len(s), IsToolCall(s[j]) => CallAnsweredAt(s, j), IsToolCall(t[j])
      PROVE  CallAnsweredAt(t, j)
  <2>1. t[j] = s[j]
    BY AppendPieces
  <2>2. CallAnsweredAt(s, j)
    BY <1>3, <2>1
  <2>3. QED
    BY <2>2, AppendPieces
<1>4. CASE i \in ResultsIn(s) /\ i \in 1..Len(s)
  <2>1. \A j \in 1..(i - 1) : j \in 1..Len(s)
    BY <1>2, <1>4
  <2>2. CASE AnsweredAt(s, i)
    BY <1>4, <2>2, AppendPieces
  <2>3. CASE \A j \in 1..(i - 1) : IsToolCall(s[j]) => CallAnsweredAt(s, j)
    BY <1>3, <2>1, <2>3
  <2>4. QED
    BY <1>4, <2>2, <2>3 DEF Mendable
<1>5. CASE i = Len(s) + 1
  <2>1. CASE s # << >> /\ IsToolCall(s[Len(s)]) /\ s[Len(s)].of = e.of
    BY <1>5, <2>1, AppendPieces
  <2>2. CASE \A j \in 1..Len(s) : IsToolCall(s[j]) => CallAnsweredAt(s, j)
    <3>1. i - 1 = Len(s)
      BY <1>2, <1>5
    <3>2. QED
      BY <1>3, <2>2, <3>1
  <2>3. QED
    BY <2>1, <2>2
<1>6. QED
  BY <1>1, <1>4, <1>5

(* Keeping at most an opening that is no call and everything from place a. *)
CutAt(I, a) == \A i \in Nat : i \in I <=> i >= a \/ (i = 1 /\ 1 \in I)

Cut(u, I, a) ==
  LET k == Keep(u, I) IN
    /\ Len(u) < a => \A i \in 1..Len(k) : ~IsToolCall(k[i])
    /\ Len(u) >= a => k # << >> /\ k[Len(k)] = u[Len(u)]
    /\ \A c : SettledBut(u, c) => SettledBut(k, c)
    /\ Mendable(u) => Mendable(k)

LEMMA SettledBefore ==
  ASSUME NEW E, NEW s \in Seq(E), NEW e \in E, NEW c, SettledBut(Append(s, e), c)
  PROVE  /\ SettledBut(s, s[Len(s)])
         /\ IsToolCall(e) => e = c
         /\ s # << >> /\ IsToolCall(s[Len(s)]) => IsToolResult(e) /\ s[Len(s)].of = e.of
<1> DEFINE t == Append(s, e)
           n == Len(s)
<1>1. /\ n \in Nat /\ DOMAIN s = 1..n /\ DOMAIN t = 1..(n + 1) /\ Len(t) = n + 1 /\ t[n + 1] = e
      /\ (s # << >> <=> n \in 1..n)
      /\ \A i \in 1..n : t[i] = s[i] /\ i \in 1..(n + 1) /\ i # n + 1
  OBVIOUS
<1>2. \A i \in 1..n : CallAnsweredAt(t, i) =>
        CallAnsweredAt(s, i) \/ (i = n /\ IsToolResult(e) /\ s[i].of = e.of)
  BY AppendPieces
<1>3. \A i \in 1..(n + 1) : IsToolCall(t[i]) => CallAnsweredAt(t, i) \/ (i = n + 1 /\ t[i] = c)
  <2>1. SettledBut(t, c)
    OBVIOUS
  <2> HIDE DEF t
  <2> QED
    BY <1>1, <2>1 DEF SettledBut
<1>4. ~CallAnsweredAt(t, n + 1) /\ ~CallAnsweredAt(s, n)
  <2>1. ResultsIn(t) \subseteq 1..(n + 1) /\ ResultsIn(s) \subseteq 1..n
    <3>1. t \in Seq(E)
      OBVIOUS
    <3> HIDE DEF t
    <3>2. QED
      BY <1>1, <3>1, ResultsFinite
  <2>2. (n + 1) + 1 \notin 1..(n + 1) /\ n + 1 \notin 1..n
    BY <1>1
  <2>3. QED
    BY <2>1, <2>2 DEF CallAnsweredAt
<1>5. IsToolCall(e) => e = c
  <2>1. n + 1 \in 1..(n + 1)
    BY <1>1
  <2> HIDE DEF t, n
  <2>2. QED
    BY <1>1, <1>3, <1>4, <2>1
<1>6. ASSUME NEW i \in 1..n, IsToolCall(s[i])
      PROVE  CallAnsweredAt(s, i) \/ (i = n /\ IsToolResult(e) /\ s[i].of = e.of)
  <2> HIDE DEF t, n
  <2> QED
    BY <1>1, <1>2, <1>3, <1>6
<1>7. SettledBut(s, s[n])
  <2> HIDE DEF n
  <2>1. \A i \in DOMAIN s : IsToolCall(s[i]) => CallAnsweredAt(s, i) \/ (i = n /\ s[i] = s[n])
    BY <1>1, <1>6
  <2>2. QED
    BY <2>1 DEF SettledBut, n
<1>8. s # << >> /\ IsToolCall(s[n]) => IsToolResult(e) /\ s[n].of = e.of
  <2> HIDE DEF t, n
  <2> QED
    BY <1>1, <1>4, <1>6
<1>9. QED
  BY <1>5, <1>7, <1>8

LEMMA SettledNext ==
  ASSUME NEW E, NEW s \in Seq(E), NEW e \in E, NEW c, NEW d, SettledBut(s, d),
         IsToolCall(e) => e = c,
         s # << >> /\ IsToolCall(s[Len(s)]) => IsToolResult(e) /\ s[Len(s)].of = e.of
  PROVE  SettledBut(Append(s, e), c)
<1> DEFINE t == Append(s, e)
           n == Len(s)
<1>1. /\ n \in Nat /\ DOMAIN s = 1..n /\ DOMAIN t = 1..(n + 1) /\ Len(t) = n + 1 /\ t[n + 1] = e
      /\ (s # << >> <=> n \in 1..n)
      /\ \A i \in 1..n : t[i] = s[i]
  OBVIOUS
<1>2. \A i \in 1..n : CallAnsweredAt(t, i) <=>
        CallAnsweredAt(s, i) \/ (i = n /\ IsToolResult(e) /\ IsToolCall(s[i]) /\ s[i].of = e.of)
  BY AppendPieces, SMTT(40)
<1>3. \A i \in 1..n : IsToolCall(s[i]) => CallAnsweredAt(s, i) \/ i = n
  BY <1>1 DEF SettledBut
<1> HIDE DEF t, n
<1>4. ASSUME NEW i \in 1..n, IsToolCall(t[i]) PROVE CallAnsweredAt(t, i)
  <2>1. IsToolCall(s[i]) /\ (CallAnsweredAt(s, i) \/ i = n)
    BY <1>1, <1>3, <1>4
  <2>2. CASE i = n
    <3>1. s # << >> /\ IsToolCall(s[n])
      BY <1>1, <2>1, <2>2
    <3>2. IsToolResult(e) /\ s[n].of = e.of
      BY <3>1 DEF n
    <3>3. QED
      BY <1>2, <2>2, <3>1, <3>2
  <2>3. QED
    BY <1>2, <2>1, <2>2
<1>5. ASSUME NEW i \in DOMAIN t, IsToolCall(t[i]) PROVE CallAnsweredAt(t, i) \/ (i = Len(t) /\ t[i] = c)
  <2>1. i \in 1..n \/ i = n + 1
    BY <1>1, <1>5
  <2>2. QED
    BY <1>1, <1>4, <1>5, <2>1
<1>6. SettledBut(t, c)
  BY <1>5 DEF SettledBut
<1>7. QED
  BY <1>6 DEF t

LEMMA CutStep ==
  ASSUME NEW E, NEW u \in Seq(E), NEW e \in E, NEW I, NEW a \in Nat, a >= 2, CutAt(I, a),
         1 \in I => ~IsToolCall(Append(u, e)[1]), Cut(u, I, a)
  PROVE  Cut(Append(u, e), I, a)
<1> DEFINE t == Append(u, e)
           n == Len(u)
           k == Keep(u, I)
           h == Keep(t, I)
<1>1. /\ n \in Nat /\ t \in Seq(E) /\ Len(t) = n + 1 /\ t[n + 1] = e
      /\ k \in Seq(E) /\ h = IF n + 1 \in I THEN Append(k, e) ELSE k
  BY KeepType, KeepAppend
<1>2. n + 1 \in I <=> n + 1 >= a \/ (n = 0 /\ 1 \in I)
  BY <1>1 DEF CutAt
<1>3. /\ n < a => \A i \in 1..Len(k) : ~IsToolCall(k[i])
      /\ n >= a => k # << >> /\ k[Len(k)] = u[n] /\ u # << >>
      /\ \A c : SettledBut(u, c) => SettledBut(k, c)
      /\ Mendable(u) => Mendable(k)
  <2>1. n >= a => u # << >>
    OBVIOUS
  <2>2. QED
    BY <2>1 DEF Cut
<1>4. Append(k, e) \in Seq(E) /\ Len(Append(k, e)) = Len(k) + 1 /\ Append(k, e)[Len(k) + 1] = e
      /\ Append(k, e) # << >> /\ \A i \in 1..Len(k) : Append(k, e)[i] = k[i]
  <2>1. k \in Seq(E)
    BY <1>1
  <2> HIDE DEF k
  <2>2. /\ Append(k, e) \in Seq(E) /\ Len(Append(k, e)) = Len(k) + 1
        /\ Append(k, e)[Len(k) + 1] = e /\ Len(k) + 1 # 0
        /\ \A i \in 1..Len(k) : Append(k, e)[i] = k[i]
    BY <2>1
  <2>3. QED
    BY <2>2
<1>5. n = 0 => t[1] = e /\ k = << >>
  <2>1. ASSUME n = 0 PROVE u = << >> /\ t[1] = e
    BY <2>1
  <2>2. QED
    BY <2>1, KeepEmpty
<1>6. Len(t) < a => \A i \in 1..Len(h) : ~IsToolCall(h[i])
  <2> SUFFICES ASSUME n + 1 < a PROVE \A i \in 1..Len(h) : ~IsToolCall(h[i])
    BY <1>1
  <2>1. n < a
    BY <1>1
  <2>2. CASE n + 1 \in I
    <3>1. n = 0 /\ 1 \in I
      BY <1>1, <1>2, <2>2
    <3>2. k = << >> /\ ~IsToolCall(e)
      BY <1>5, <3>1
    <3>3. h = Append(k, e)
      BY <1>1, <2>2
    <3> HIDE DEF h, k, t
    <3>4. h = <<e>>
      BY <3>2, <3>3
    <3>5. QED
      BY <3>2, <3>4
  <2>3. CASE n + 1 \notin I
    <3>1. h = k
      BY <1>1, <2>3
    <3> HIDE DEF h, k
    <3>2. QED
      BY <1>3, <2>1, <3>1
  <2>4. QED
    BY <2>2, <2>3
<1>7. Len(t) >= a => h = Append(k, e)
  <2> HIDE DEF t, h, k
  <2> QED
    BY <1>1, <1>2
<1>8. CASE n + 1 \notin I
  <2>1. h = k /\ Len(t) < a
    <3> HIDE DEF t, h, k
    <3> QED
      BY <1>1, <1>2, <1>8
  <2>2. ASSUME NEW c, SettledBut(t, c) PROVE SettledBut(h, c)
    <3>1. SettledBut(k, u[n])
      BY <1>3, <2>2, SettledBefore
    <3>2. \A i \in 1..Len(k) : ~IsToolCall(k[i])
      BY <1>6, <2>1
    <3> HIDE DEF k, h
    <3>3. QED
      BY <1>1, <2>1, <3>2, SMTT(40) DEF SettledBut
  <2>3. Mendable(t) => Mendable(h)
    BY <1>3, <2>1, MendablePrefix
  <2>4. Len(t) >= a => FALSE
    <3> HIDE DEF t
    <3> QED
      BY <1>1, <2>1
  <2>5. Cut(t, I, a)
    <3> HIDE DEF t
    <3> QED
      BY <1>6, <2>2, <2>3, <2>4 DEF Cut, h
  <2>6. QED
    BY <2>5
<1>9. CASE n + 1 \in I
  <2>1. h = Append(k, e)
    BY <1>1, <1>9
  <2>2. n >= a \/ \A i \in 1..Len(k) : ~IsToolCall(k[i])
    <3> HIDE DEF k
    <3> QED
      BY <1>1, <1>3
  <2>3. k # << >> => Len(k) \in 1..Len(k)
    <3> HIDE DEF k
    <3> QED
      BY <1>1
  <2>4. ASSUME NEW c, SettledBut(t, c) PROVE SettledBut(h, c)
    <3>1. /\ SettledBut(u, u[n]) /\ (IsToolCall(e) => e = c)
          /\ u # << >> /\ IsToolCall(u[n]) => IsToolResult(e) /\ u[n].of = e.of
      BY <2>4, SettledBefore
    <3>2. SettledBut(k, u[n])
      BY <1>3, <3>1
    <3>3. k # << >> /\ IsToolCall(k[Len(k)]) => IsToolResult(e) /\ k[Len(k)].of = e.of
      <4> HIDE DEF k
      <4> QED
        BY <1>3, <2>2, <2>3, <3>1
    <3> HIDE DEF k, h, t, n
    <3>4. QED
      BY <1>1, <2>1, <3>1, <3>2, <3>3, SettledNext
  <2>5. ASSUME Mendable(t) PROVE Mendable(h)
    <3>1. Mendable(u) /\ Mendable(k)
      BY <1>3, <2>5, MendablePrefix
    <3>2. CASE ~IsToolResult(e)
      <4> HIDE DEF k, h
      <4> QED
        BY <1>1, <2>1, <3>1, <3>2, MendableAppend
    <3>3. CASE IsToolResult(e)
      <4>1. \/ k # << >> /\ IsToolCall(k[Len(k)]) /\ k[Len(k)].of = e.of
            \/ \A j \in 1..Len(k) : IsToolCall(k[j]) => CallAnsweredAt(k, j)
        <5>1. CASE \A i \in 1..Len(k) : ~IsToolCall(k[i])
          BY <5>1
        <5>2. CASE n >= a /\ IsToolCall(u[n]) /\ u[n].of = e.of
          BY <1>3, <5>2
        <5>3. CASE n >= a /\ ~(IsToolCall(u[n]) /\ u[n].of = e.of)
          <6>1. ~AnsweredAt(t, n + 1) /\ n + 1 \in ResultsIn(t)
            BY <3>3, <5>3, AppendPieces
          <6>2. \A j \in 1..n : IsToolCall(t[j]) => CallAnsweredAt(t, j)
            <7>1. (n + 1) - 1 = n
              BY <1>1
            <7> HIDE DEF t, n
            <7>2. QED
              BY <2>5, <6>1, <7>1 DEF Mendable
          <6>3. SettledBut(t, e)
            <7>1. DOMAIN t = 1..(n + 1) /\ ~IsToolCall(t[n + 1])
              BY <3>3, AppendPieces DEF IsToolCall, IsToolResult
            <7>2. \A i \in 1..(n + 1) : i \in 1..n \/ i = n + 1
              BY <1>1
            <7> HIDE DEF t, n
            <7>3. QED
              BY <6>2, <7>1, <7>2 DEF SettledBut
          <6>4. SettledBut(u, u[n]) /\ ~IsToolCall(u[n])
            BY <1>3, <5>3, <6>3, SettledBefore
          <6>5. SettledBut(k, u[n])
            BY <1>3, <6>4
          <6> HIDE DEF k, n
          <6>6. QED
            BY <1>1, <6>4, <6>5 DEF SettledBut
        <5>4. QED
          BY <2>2, <5>1, <5>2, <5>3
      <4> HIDE DEF k, h
      <4>2. QED
        BY <1>1, <2>1, <3>1, <3>3, <4>1, MendableAppendResult
    <3>4. QED
      BY <3>2, <3>3
  <2>6. h # << >> /\ h[Len(h)] = t[Len(t)]
    <3> HIDE DEF h, k, t
    <3> QED
      BY <1>1, <1>4, <2>1
  <2>7. Cut(t, I, a)
    <3> HIDE DEF t
    <3> QED
      BY <1>6, <2>4, <2>5, <2>6 DEF Cut, h
  <2>8. QED
    BY <2>7
<1>10. QED
  BY <1>8, <1>9

LEMMA TruncatedIsMendable ==
  ASSUME NEW E, NEW s \in Seq(E), NEW k \in Nat, Mendable(s)
  PROVE  Mendable(Truncated(s, k))
<1> DEFINE N == Len(s)
           a == (N - k) + 1
           opening == IF s[1].kind \in {"user", "system"} THEN {1} ELSE {}
           I == opening \cup a..N
           J == opening \cup {i \in Nat : i >= a}
<1>1. CASE N <= k + 1
  BY <1>1 DEF Truncated
<1>2. CASE ~(N <= k + 1)
  <2>1. N \in Nat /\ a \in Nat /\ a >= 2 /\ Truncated(s, k) = Keep(s, I)
    BY <1>2 DEF Truncated
  <2>2. CutAt(J, a) /\ (1 \in J => ~IsToolCall(s[1]))
    BY <2>1 DEF CutAt, IsToolCall
  <2>3. Keep(s, I) = Keep(s, J)
    <3>1. \A i \in 1..N : i \in I <=> i \in J
      BY <2>1
    <3> HIDE DEF I, J
    <3>2. QED
      BY <3>1, KeepSame
  <2> HIDE DEF I, J, a, opening
  <2> DEFINE S == {u \in Seq(E) : (u # << >> /\ 1 \in J => ~IsToolCall(u[1])) => Cut(u, J, a)}
  <2>4. << >> \in S
    <3>1. Keep(<< >>, J) = << >> /\ Len(<< >>) = 0 /\ << >> \in Seq(E)
      BY KeepEmpty
    <3>2. Cut(<< >>, J, a)
      <4>1. Len(<< >>) < a /\ 1..Len(<< >>) = {}
        BY <2>1, <3>1
      <4>2. QED
        BY <2>1, <3>1, <4>1 DEF Cut
    <3>3. QED
      BY <3>1, <3>2
  <2>5. ASSUME NEW u \in Seq(E), NEW e \in E, u \in S PROVE Append(u, e) \in S
    <3>1. Append(u, e) \in Seq(E) /\ Append(u, e) # << >> /\ (u # << >> => Append(u, e)[1] = u[1])
      OBVIOUS
    <3>2. ASSUME 1 \in J => ~IsToolCall(Append(u, e)[1]) PROVE Cut(Append(u, e), J, a)
      <4>1. Cut(u, J, a)
        BY <2>5, <3>1, <3>2
      <4>2. QED
        BY <2>1, <2>2, <3>2, <4>1, CutStep
    <3>3. QED
      BY <3>1, <3>2
  <2>6. s \in S
    <3> HIDE DEF S
    <3> QED
      BY <2>4, <2>5, SequenceInduction
  <2>7. Cut(s, J, a)
    BY <2>2, <2>6
  <2>8. QED
    BY <2>1, <2>3, <2>7 DEF Cut
<1>3. QED
  BY <1>1, <1>2

----------------------------------------------------------------------------
(* Every history the agent loop leaves behind, MCSessionEvents.            *)

LoopInv == left \in Seq(Event) /\ Mendable(left)

LEMMA LoopEvents ==
  /\ \A t \in Turns : \A e \in {UserText(t), AgentText(t), Blank(t), Contentless(t)} :
       e \in Event /\ ~IsToolResult(e)
  /\ \A t \in Tools : /\ Call(t) \in Event /\ ~IsToolResult(Call(t))
                      /\ Result(t) \in Event /\ IsToolResult(Result(t)) /\ Result(t).of = t
  /\ \A e \in Event : IsToolCall(e) => e.of \in Tools
<1>1. \A t \in Turns : \A e \in {UserText(t), AgentText(t), Blank(t), Contentless(t)} :
        e \in Event /\ ~IsToolResult(e)
  BY DEF UserText, AgentText, Blank, Contentless, Event, TextKinds, IsToolResult
<1>2. \A t \in Tools : /\ Call(t) \in Event /\ ~IsToolResult(Call(t))
                       /\ Result(t) \in Event /\ IsToolResult(Result(t)) /\ Result(t).of = t
  BY DEF Call, Result, Event, ToolKinds, IsToolResult
<1>3. \A e \in Event : IsToolCall(e) => e.of \in Tools
  BY DEF Event, TextKinds, IsToolCall
<1>4. QED
  BY <1>1, <1>2, <1>3

LEMMA LoopStep ==
  ASSUME LoopInv, LoopNext
  PROVE  LoopInv'
<1>1. left \in Seq(Event) /\ Mendable(left)
  BY DEF LoopInv
<1>2. ASSUME NEW e \in Event, ~IsToolResult(e), left' = Append(left, e)
      PROVE  LoopInv'
  BY <1>1, <1>2, MendableAppend DEF LoopInv
<1>3. CASE UserPrompts \/ AgentCalls \/ Reply
  <2>1. PICK e \in Event : ~IsToolResult(e) /\ left' = Append(left, e)
    BY <1>3, LoopEvents DEF UserPrompts, AgentCalls, Reply
  <2>2. QED
    BY <1>2, <2>1
<1>4. CASE ToolAnswers
  <2> DEFINE c == left[Len(left)]
  <2>1. left # << >> /\ c \in Event /\ IsToolCall(c)
    BY <1>1, <1>4 DEF ToolAnswers, Newest
  <2>2. left' = Append(left, Result(c.of))
    BY <1>4 DEF ToolAnswers, Newest
  <2>3. Result(c.of) \in Event /\ IsToolResult(Result(c.of)) /\ Result(c.of).of = c.of
    BY <2>1, LoopEvents
  <2> DEFINE e == Result(c.of)
  <2>4. e \in Event /\ IsToolResult(e) /\ c.of = e.of /\ left' = Append(left, e)
    BY <2>2, <2>3
  <2> HIDE DEF e
  <2>5. Mendable(Append(left, e)) /\ Append(left, e) \in Seq(Event)
    BY <1>1, <2>1, <2>4, MendableAppendResult
  <2>6. QED
    BY <2>4, <2>5 DEF LoopInv
<1>5. CASE Truncate
  <2>1. left' = Truncated(left, KeptByTruncation)
    BY <1>5 DEF Truncate
  <2>2. Truncated(left, KeptByTruncation) \in Seq(Event) /\ Mendable(Truncated(left, KeptByTruncation))
    BY <1>1, TruncationAssumption, TruncatedIsMendable, KeepType DEF Truncated
  <2>3. QED
    BY <2>1, <2>2 DEF LoopInv
<1>6. QED
  BY <1>3, <1>4, <1>5 DEF LoopNext

(* Whatever runs, interruptions and truncations left in a session: after   *)
(* validate_session manage_current_session does not raise, and what it     *)
(* keeps are whole pairs, no more than MAX_TOOL_CALLS_IN_SESSION of them.  *)
THEOREM ValidatedTrimsSafely == LoopSpec => []TrimOfValidatedIsSafe
<1>1. LoopInit => LoopInv
  <2>1. ResultsIn(<< >>) = {} /\ << >> \in Seq(Event)
    BY DEF ResultsIn
  <2>2. QED
    BY <2>1 DEF LoopInit, LoopInv, Mendable
<1>2. LoopInv /\ [LoopNext]_left => LoopInv'
  BY LoopStep DEF LoopInv
<1>3. LoopInv => TrimOfValidatedIsSafe
  BY ValidatedTrims DEF LoopInv, TrimOfValidatedIsSafe
<1>4. QED
  BY <1>1, <1>2, <1>3, PTL DEF LoopSpec

----------------------------------------------------------------------------
(* What validation returns, whatever it is given by the agent loop.        *)

(* Nothing comes between a call and its response: in these histories what  *)
(* follows a call, and what a response follows, has content.               *)
Follows(d, e) == (IsToolCall(d) => HasContent(e)) /\ (IsToolResult(e) => HasContent(d))

LoopShape(s) ==
  /\ s # << >> => s[1].kind = "user"
  /\ \A i \in 2..Len(s) : Follows(s[i - 1], s[i])

(* The positions that stay: calls before responses, responses after calls  *)
(* and everything else.                                                    *)
Paired(s) ==
  {i \in DOMAIN s : /\ IsToolCall(s[i]) => i < Len(s) /\ IsToolResult(s[i + 1])
                    /\ IsToolResult(s[i]) => i > 1 /\ IsToolCall(s[i - 1])}

(* The call the scan has in hand. *)
InHand(s) == IF s # << >> /\ IsToolCall(s[Len(s)]) THEN <<s[Len(s)]>> ELSE << >>

LEMMA ShapeAppend ==
  ASSUME NEW E, NEW s \in Seq(E), NEW e \in E
  PROVE  LoopShape(Append(s, e)) <=>
           /\ LoopShape(s)
           /\ IF s = << >> THEN e.kind = "user" ELSE Follows(s[Len(s)], e)
<1> DEFINE t == Append(s, e)
           N == Len(s)
<1>1. /\ N \in Nat /\ Len(t) = N + 1 /\ t[N + 1] = e /\ t # << >>
      /\ \A i \in 1..N : t[i] = s[i]
      /\ s = << >> <=> N = 0
  OBVIOUS
<1> HIDE DEF t, N
<1>2. /\ \A i \in 2..N : i \in 1..N /\ i - 1 \in 1..N
      /\ N # 0 => 1 \in 1..N /\ N \in 1..N /\ N + 1 \in 2..(N + 1) /\ (N + 1) - 1 = N
      /\ \A i \in 2..(N + 1) : i \in 2..N \/ (i = N + 1 /\ N # 0)
      /\ \A i \in 2..N : i \in 2..(N + 1)
  BY <1>1
<1>3. \A i \in 2..N : Follows(t[i - 1], t[i]) <=> Follows(s[i - 1], s[i])
  BY <1>1, <1>2
<1>4. CASE N = 0
  <2>1. t[1] = e /\ 2..(N + 1) = {} /\ 2..N = {}
    BY <1>1, <1>4
  <2>2. QED
    BY <1>1, <2>1, <1>4 DEF LoopShape, t, N
<1>5. CASE N # 0
  <2>1. t[1] = s[1] /\ t[N] = s[N]
    BY <1>1, <1>2, <1>5
  <2>2. (\A i \in 2..(N + 1) : Follows(t[i - 1], t[i])) <=>
          (\A i \in 2..N : Follows(s[i - 1], s[i])) /\ Follows(s[N], e)
    BY <1>1, <1>2, <1>3, <1>5, <2>1, SMTT(40)
  <2>3. QED
    BY <1>1, <1>5, <2>1, <2>2 DEF LoopShape, t, N
<1>6. QED
  BY <1>4, <1>5

(* The positions that stay, event by event.                                *)
LEMMA PairedAppend ==
  ASSUME NEW E, NEW s \in Seq(E), NEW e \in E
  PROVE  /\ Paired(s) \subseteq 1..Len(s)
         /\ s # << >> /\ IsToolCall(s[Len(s)]) => Len(s) \notin Paired(s)
         /\ Len(s) + 1 \in Paired(Append(s, e)) <=>
              ~IsToolCall(e) /\ (IsToolResult(e) => s # << >> /\ IsToolCall(s[Len(s)]))
         /\ \A i \in 1..Len(s) :
              i \in Paired(Append(s, e)) <=>
                i \in Paired(s) \/ (i = Len(s) /\ IsToolCall(s[i]) /\ IsToolResult(e))
<1> DEFINE t == Append(s, e)
           N == Len(s)
<1>1. /\ N \in Nat /\ DOMAIN s = 1..N /\ Len(t) = N + 1 /\ DOMAIN t = 1..(N + 1)
      /\ t[N + 1] = e /\ \A i \in 1..N : t[i] = s[i]
      /\ s # << >> <=> N > 0
  OBVIOUS
<1> HIDE DEF t, N
<1>2. Paired(s) \subseteq 1..N
  BY <1>1 DEF Paired
<1>3. IsToolCall(s[N]) => N \notin Paired(s)
  BY <1>1 DEF Paired, N
<1>4. N + 1 \in Paired(t) <=>
        ~IsToolCall(e) /\ (IsToolResult(e) => N > 0 /\ IsToolCall(s[N]))
  <2>1. (N + 1) - 1 = N /\ ~(N + 1 < N + 1) /\ (N + 1 > 1 <=> N > 0) /\ N + 1 \in 1..(N + 1)
        /\ (N > 0 => t[N] = s[N])
    BY <1>1
  <2>2. QED
    BY <1>1, <2>1 DEF Paired
<1>5. ASSUME NEW i \in 1..N
      PROVE  i \in Paired(t) <=>
               i \in Paired(s) \/ (i = N /\ IsToolCall(s[i]) /\ IsToolResult(e))
  <2>1. /\ i \in 1..(N + 1) /\ i < N + 1 /\ t[i] = s[i]
        /\ i > 1 => t[i - 1] = s[i - 1]
        /\ i < N => t[i + 1] = s[i + 1]
        /\ ~(i < N) => i = N /\ t[i + 1] = e
    <3>1. (i > 1 => i - 1 \in 1..N) /\ (i < N => i + 1 \in 1..N) /\ (~(i < N) => i = N)
      BY <1>1
    <3>2. QED
      BY <1>1, <3>1
  <2>2. IsToolCall(s[i]) => ~IsToolResult(s[i])
    BY DEF IsToolCall, IsToolResult
  <2>3. i \in Paired(t) <=> /\ IsToolCall(s[i]) => IsToolResult(t[i + 1])
                            /\ IsToolResult(s[i]) => i > 1 /\ IsToolCall(s[i - 1])
    BY <1>1, <2>1 DEF Paired
  <2>4. i \in Paired(s) <=> /\ IsToolCall(s[i]) => i < N /\ IsToolResult(s[i + 1])
                            /\ IsToolResult(s[i]) => i > 1 /\ IsToolCall(s[i - 1])
    BY <1>1 DEF Paired, N
  <2>5. CASE i < N
    <3>1. i # N /\ t[i + 1] = s[i + 1]
      BY <1>1, <2>1, <2>5
    <3>2. QED
      BY <2>3, <2>4, <2>5, <3>1
  <2>6. CASE ~(i < N)
    BY <2>1, <2>2, <2>3, <2>4, <2>6
  <2>7. QED
    BY <2>5, <2>6
<1>6. QED
  BY <1>1, <1>2, <1>3, <1>4, <1>5 DEF t, N

(* The scan lets the pairs through and nothing of them is in disorder.     *)
LEMMA ScanPairs ==
  ASSUME NEW s \in Seq(Event), LoopShape(s)
  PROVE  Scan(s).events = Keep(s, Paired(s)) /\ Scan(s).pending = InHand(s)
<1> DEFINE S == {u \in Seq(Event) :
                   LoopShape(u) => Scan(u).events = Keep(u, Paired(u)) /\ Scan(u).pending = InHand(u)}
<1>1. << >> \in S
  BY ScanEmpty, KeepEmpty DEF ScanStart, InHand
<1>2. ASSUME NEW u \in Seq(Event), NEW e \in Event, u \in S PROVE Append(u, e) \in S
  <2> DEFINE t == Append(u, e)
             n == Len(u)
             a == Scan(u)
             P == Paired(u)
             Q == Paired(t)
  <2> SUFFICES ASSUME LoopShape(t)
               PROVE  Scan(t).events = Keep(t, Q) /\ Scan(t).pending = InHand(t)
    <3>1. t \in Seq(Event)
      OBVIOUS
    <3>2. QED
      BY <3>1
  <2>1. /\ LoopShape(u)
        /\ IF u = << >> THEN e.kind = "user" ELSE Follows(u[n], e)
    BY ShapeAppend
  <2>2. a.events = Keep(u, P) /\ a.pending = InHand(u)
    BY <1>2, <2>1
  <2>3. /\ a \in ScanValues(Event) /\ Scan(t) = ScanStep(a, e)
        /\ Keep(u, P) \in Seq(Event)
        /\ \A I : Keep(t, I) = IF n + 1 \in I THEN Append(Keep(u, I), e) ELSE Keep(u, I)
    BY ScanType, ScanAppend, KeepType, KeepAppend
  <2>4. /\ P \subseteq 1..n /\ n \in Nat
        /\ u # << >> /\ IsToolCall(u[n]) => n \notin P
        /\ n + 1 \in Q <=> ~IsToolCall(e) /\ (IsToolResult(e) => u # << >> /\ IsToolCall(u[n]))
        /\ \A i \in 1..n : i \in Q <=> i \in P \/ (i = n /\ IsToolCall(u[i]) /\ IsToolResult(e))
    BY PairedAppend
  <2>5. InHand(t) = IF IsToolCall(e) THEN <<e>> ELSE << >>
    <3>1. t # << >> /\ t[Len(t)] = e
      OBVIOUS
    <3> HIDE DEF t
    <3>2. QED
      BY <3>1 DEF InHand
  <2>6. ASSUME ~(IsToolResult(e) /\ u # << >> /\ IsToolCall(u[n]))
        PROVE  Keep(u, Q) = Keep(u, P)
    <3>1. \A i \in 1..n : i \in Q <=> i \in P
      <4> SUFFICES ASSUME NEW i \in 1..n PROVE i \in Q <=> i \in P
        OBVIOUS
      <4>1. i = n => u # << >>
        OBVIOUS
      <4> HIDE DEF Q, P, n
      <4>2. QED
        BY <2>4, <2>6, <4>1
    <3> HIDE DEF Q, P
    <3>2. QED
      BY <3>1, KeepSame
  <2> HIDE DEF t, a, P, Q
  <2>7. CASE ~HasContent(e)
    <3>1. ~IsToolCall(e) /\ ~IsToolResult(e)
      BY <2>7 DEF HasContent, IsToolCall, IsToolResult
    <3>2. ~(u # << >> /\ IsToolCall(u[n])) /\ InHand(u) = << >>
      BY <2>1, <2>7 DEF Follows, InHand
    <3>3. ScanStep(a, e).events = Append(a.events, e) /\ ScanStep(a, e).pending = a.pending
      BY <2>3, <2>7 DEF ScanStep, ScanValues
    <3>4. n + 1 \in Q /\ Keep(u, Q) = Keep(u, P)
      BY <2>4, <2>6, <3>1
    <3>5. QED
      BY <2>2, <2>3, <2>5, <3>1, <3>2, <3>3, <3>4
  <2>8. CASE HasContent(e) /\ ~IsToolCall(e) /\ ~IsToolResult(e)
    <3>1. ScanStep(a, e).events = Append(a.events, e) /\ ScanStep(a, e).pending = << >>
      BY <2>8 DEF ScanStep, ScanPlain
    <3>2. n + 1 \in Q /\ Keep(u, Q) = Keep(u, P)
      BY <2>4, <2>6, <2>8
    <3>3. QED
      BY <2>2, <2>3, <2>5, <2>8, <3>1, <3>2
  <2>9. CASE IsToolCall(e)
    <3>1. HasContent(e) /\ ~IsToolResult(e)
      BY <2>9 DEF HasContent, IsToolCall, IsToolResult
    <3>2. ScanStep(a, e).events = a.events /\ ScanStep(a, e).pending = <<e>>
      BY <2>9, <3>1 DEF ScanStep, ScanCall
    <3>3. n + 1 \notin Q /\ Keep(u, Q) = Keep(u, P)
      BY <2>4, <2>6, <2>9, <3>1
    <3>4. QED
      BY <2>2, <2>3, <2>5, <2>9, <3>2, <3>3
  <2>10. CASE IsToolResult(e)
    <3>1. HasContent(e) /\ ~IsToolCall(e) /\ ScanStep(a, e) = ScanResult(a, e)
      BY <2>10 DEF HasContent, IsToolCall, IsToolResult, ScanStep
    <3>2. CASE ~(u # << >> /\ IsToolCall(u[n]))
      <4>1. InHand(u) = << >>
        BY <3>2 DEF InHand
      <4>2. ScanStep(a, e).events = a.events /\ ScanStep(a, e).pending = << >>
        BY <2>2, <2>3, <3>1, <4>1 DEF ScanResult, ScanValues
      <4>3. n + 1 \notin Q /\ Keep(u, Q) = Keep(u, P)
        BY <2>4, <2>6, <2>10, <3>2
      <4>4. QED
        BY <2>2, <2>3, <2>5, <3>1, <4>2, <4>3
    <3>3. CASE u # << >> /\ IsToolCall(u[n])
      <4>1. InHand(u) = <<u[n]>> /\ n \in 1..n
        BY <2>4, <3>3 DEF InHand
      <4>2. ScanStep(a, e).events = Append(a.events \o <<u[n]>>, e) /\ ScanStep(a, e).pending = << >>
        BY <2>2, <3>1, <4>1 DEF ScanResult
      <4>3. n + 1 \in Q /\ n \in Q /\ n \notin P
        BY <2>4, <2>10, <3>1, <3>3, <4>1
      <4> DEFINE v == SubSeq(u, 1, n - 1)
      <4>4. v \in Seq(Event) /\ u[n] \in Event /\ u = Append(v, u[n]) /\ Len(v) + 1 = n /\ n \in Nat
        BY <3>3, <4>1
      <4>5. \A I : Keep(u, I) = IF n \in I THEN Append(Keep(v, I), u[n]) ELSE Keep(v, I)
        <5> HIDE DEF v, n
        <5> SUFFICES ASSUME NEW I
                     PROVE  Keep(u, I) = IF n \in I THEN Append(Keep(v, I), u[n]) ELSE Keep(v, I)
          OBVIOUS
        <5> DEFINE c == u[n]
        <5>1. c \in Event /\ u = Append(v, c)
          BY <4>4
        <5> HIDE DEF c
        <5>2. Keep(Append(v, c), I) =
                IF Len(v) + 1 \in I THEN Append(Keep(v, I), c) ELSE Keep(v, I)
          BY <4>4, <5>1, KeepAppend
        <5>3. QED
          BY <4>4, <5>1, <5>2 DEF c
      <4>6. Keep(v, Q) = Keep(v, P)
        <5>1. \A i \in 1..Len(v) : i \in 1..n /\ i # n
          <6> HIDE DEF v, n
          <6>1. Len(v) \in Nat /\ Len(v) + 1 = n
            BY <4>4
          <6>2. QED
            BY <6>1
        <5>2. \A i \in 1..Len(v) : i \in Q <=> i \in P
          <6> HIDE DEF v, n
          <6> QED
            BY <2>4, <5>1
        <5> HIDE DEF v, n
        <5>3. QED
          BY <4>4, <5>2, KeepSame
      <4>7. Keep(u, P) = Keep(v, P) /\ Keep(u, Q) = Append(Keep(v, Q), u[n])
        <5> HIDE DEF v, n
        <5> QED
          BY <4>3, <4>5
      <4>8. a.events \o <<u[n]>> = Append(Keep(u, P), u[n])
        BY <2>2, <2>3, <4>4
      <4>9. ScanStep(a, e).events = Keep(t, Q)
        <5> HIDE DEF v, n
        <5> QED
          BY <2>2, <2>3, <4>2, <4>3, <4>6, <4>7, <4>8
      <4>10. QED
        BY <2>3, <2>5, <3>1, <4>2, <4>9
    <3>4. QED
      BY <3>2, <3>3
  <2>11. QED
    BY <2>7, <2>8, <2>9, <2>10 DEF HasContent
<1>3. s \in S
  <2> HIDE DEF S
  <2> QED
    BY <1>1, <1>2, SequenceInduction
<1>4. QED
  BY <1>3

LEMMA ValidatedArePaired ==
  ASSUME NEW s \in Seq(Event), LoopShape(s), Mendable(s)
  PROVE  Validated(s) = Keep(s, Paired(s))
<1>1. Repaired(s) = Keep(s, Paired(s))
  BY ScanPairs DEF Repaired
<1>2. CASE NeedsRepair(s)
  BY <1>1, <1>2 DEF Validated
<1>3. CASE ~NeedsRepair(s)
  <2>1. PairsIntact(s)
    BY <1>3, ValidationMends
  <2>2. /\ \A i \in ResultsIn(s) : AnsweredAt(s, i)
        /\ \A i \in DOMAIN s : IsToolCall(s[i]) => CallAnsweredAt(s, i)
    BY <2>1, IntactSaid DEF ResultsAnswer
  <2>3. 1..Len(s) \subseteq Paired(s)
    <3> SUFFICES ASSUME NEW i \in 1..Len(s) PROVE i \in Paired(s)
      OBVIOUS
    <3>1. i \in DOMAIN s /\ Len(s) \in Nat
      OBVIOUS
    <3>2. IsToolResult(s[i]) => i > 1 /\ IsToolCall(s[i - 1])
      BY <2>2, <3>1 DEF ResultsIn, AnsweredAt
    <3>3. ASSUME IsToolCall(s[i]) PROVE i < Len(s) /\ IsToolResult(s[i + 1])
      <4>1. i + 1 \in DOMAIN s /\ IsToolResult(s[i + 1])
        BY <2>2, <3>1, <3>3 DEF CallAnsweredAt, ResultsIn
      <4>2. QED
        BY <3>1, <4>1
    <3>4. QED
      BY <3>1, <3>2, <3>3 DEF Paired
  <2>4. Keep(s, Paired(s)) = s
    BY <2>3, KeepAll
  <2>5. QED
    BY <1>3, <2>4 DEF Validated
<1>4. QED
  BY <1>2, <1>3

(* Cutting after the opening leaves neighbours together, but for the first *)
(* of what is kept, which then follows the user's message.                 *)
CutShape(u, I, a) ==
  LET k == Keep(u, I) IN
    /\ LoopShape(k)
    /\ u # << >> => k # << >>
    /\ u # << >> /\ Len(u) < a => k[Len(k)].kind = "user"
    /\ Len(u) >= a => k[Len(k)] = u[Len(u)]

LEMMA TruncatedHasShape ==
  ASSUME NEW E, NEW s \in Seq(E), NEW k \in Nat, LoopShape(s)
  PROVE  LoopShape(Truncated(s, k))
<1> DEFINE N == Len(s)
           a == (N - k) + 1
           I == {1} \cup a..N
           J == {1} \cup {i \in Nat : i >= a}
<1>1. CASE N <= k + 1
  BY <1>1 DEF Truncated
<1>2. CASE ~(N <= k + 1)
  <2>1. N \in Nat /\ a \in Nat /\ a >= 2 /\ s # << >>
    BY <1>2
  <2>2. Truncated(s, k) = Keep(s, I)
    BY <1>2, <2>1 DEF Truncated, LoopShape
  <2>3. Keep(s, I) = Keep(s, J)
    <3>1. \A i \in 1..N : i \in I <=> i \in J
      BY <2>1
    <3> HIDE DEF I, J
    <3>2. QED
      BY <3>1, KeepSame
  <2>4. 1 \in J /\ \A i \in Nat : i \in J <=> i = 1 \/ i >= a
    BY <2>1
  <2> HIDE DEF I, J, a
  <2> DEFINE S == {u \in Seq(E) : LoopShape(u) => CutShape(u, J, a)}
  <2>5. << >> \in S
    <3>1. Keep(<< >>, J) = << >> /\ Len(<< >>) = 0 /\ << >> \in Seq(E)
      BY KeepEmpty
    <3>2. LoopShape(<< >>) /\ ~(0 >= a)
      BY <2>1, <3>1 DEF LoopShape
    <3>3. QED
      BY <3>1, <3>2 DEF CutShape
  <2>6. ASSUME NEW u \in Seq(E), NEW e \in E, u \in S PROVE Append(u, e) \in S
    <3> DEFINE t == Append(u, e)
               g == Keep(u, J)
               n == Len(u)
    <3> SUFFICES ASSUME LoopShape(t) PROVE CutShape(t, J, a)
      <4>1. t \in Seq(E)
        OBVIOUS
      <4>2. QED
        BY <4>1
    <3>1. /\ LoopShape(u) /\ CutShape(u, J, a)
          /\ IF u = << >> THEN e.kind = "user" ELSE Follows(u[n], e)
      BY <2>6, ShapeAppend
    <3>2. /\ g \in Seq(E) /\ n \in Nat /\ Len(t) = n + 1 /\ t # << >> /\ t[n + 1] = e
          /\ (u = << >> <=> n = 0)
          /\ Keep(t, J) = IF n + 1 \in J THEN Append(g, e) ELSE g
      BY KeepType, KeepAppend
    <3>3. /\ LoopShape(g)
          /\ u # << >> => g # << >>
          /\ u # << >> /\ n < a => g[Len(g)].kind = "user"
          /\ n >= a => g[Len(g)] = u[n]
      BY <3>1 DEF CutShape
    <3>4. n + 1 \in J <=> n = 0 \/ n + 1 >= a
      BY <2>4, <3>2
    <3>5. u = << >> => g = << >>
      BY KeepEmpty
    <3> HIDE DEF t, g, n
    <3>6. CASE n + 1 \in J
      <4>1. Keep(t, J) = Append(g, e) /\ Append(g, e) # << >>
            /\ Append(g, e)[Len(Append(g, e))] = e
        <5>1. Append(g, e) # << >> /\ Append(g, e)[Len(Append(g, e))] = e
          <6>1. g \in Seq(E)
            BY <3>2
          <6>2. QED
            BY <6>1
        <5>2. QED
          BY <3>2, <3>6, <5>1
      <4>2. LoopShape(Append(g, e))
        <5>1. CASE u = << >>
          BY <3>1, <3>2, <3>3, <3>5, <5>1, ShapeAppend
        <5>2. CASE u # << >> /\ n < a
          <6>1. Follows(g[Len(g)], e)
            BY <3>3, <5>2 DEF Follows, IsToolCall, HasContent
          <6>2. QED
            BY <3>2, <3>3, <5>2, <6>1, ShapeAppend
        <5>3. CASE u # << >> /\ ~(n < a)
          <6>1. n >= a
            BY <2>1, <3>2, <5>3
          <6>2. Follows(g[Len(g)], e)
            BY <3>1, <3>3, <5>3, <6>1
          <6>3. QED
            BY <3>2, <3>3, <5>3, <6>2, ShapeAppend
        <5>4. QED
          BY <5>1, <5>2, <5>3
      <4>3. Len(t) < a => e.kind = "user"
        BY <2>1, <3>1, <3>2, <3>4, <3>6
      <4>4. QED
        BY <3>2, <4>1, <4>2, <4>3 DEF CutShape
    <3>7. CASE n + 1 \notin J
      <4>1. Keep(t, J) = g /\ u # << >> /\ n < a /\ ~(Len(t) >= a)
        BY <2>1, <3>2, <3>4, <3>7
      <4>2. QED
        BY <3>3, <4>1 DEF CutShape
    <3>8. QED
      BY <3>6, <3>7
  <2>7. s \in S
    <3> HIDE DEF S
    <3> QED
      BY <2>5, <2>6, SequenceInduction
  <2>8. QED
    BY <2>2, <2>3, <2>7 DEF CutShape
<1>3. QED
  BY <1>1, <1>2

LEMMA SameKeeping ==
  /\ \A s, I : Keep(s, I) = Keep(s, I)
  /\ \A e : IsToolResult(e) <=> IsToolResult(e)
  /\ \A e : HasContent(e) <=> HasContent(e)
<1>1. \A s, I : Keep(s, I) = Keep(s, I)
  BY DEF Keep
<1>2. QED
  BY <1>1 DEF IsToolResult, HasContent

LEMMA LoopShapeStep ==
  ASSUME left \in Seq(Event), LoopShape(left), LoopNext
  PROVE  LoopShape(left')
<1>1. ASSUME NEW e \in Event, left' = Append(left, e),
             IF left = << >> THEN e.kind = "user" ELSE Follows(left[Len(left)], e)
      PROVE  LoopShape(left')
  BY <1>1, ShapeAppend
<1>2. CASE UserPrompts
  <2>1. PICK t \in Turns : left' = Append(left, UserText(t))
    BY <1>2 DEF UserPrompts
  <2>2. UserText(t) \in Event /\ UserText(t).kind = "user"
    BY LoopEvents DEF UserText
  <2> DEFINE e == UserText(t)
  <2>3. Follows(left[Len(left)], e)
    BY <2>2 DEF Follows, HasContent, IsToolResult
  <2> HIDE DEF e
  <2>4. QED
    BY <1>1, <2>1, <2>2, <2>3 DEF e
<1>3. CASE AgentCalls \/ Reply
  <2>1. left # << >> /\ left[Len(left)].kind \in {"user", "system", "result"}
    BY <1>3 DEF AgentCalls, Reply, Newest
  <2>2. PICK e \in Event : ~IsToolResult(e) /\ left' = Append(left, e)
    BY <1>3, LoopEvents DEF AgentCalls, Reply
  <2>3. Follows(left[Len(left)], e)
    BY <2>1, <2>2 DEF Follows, IsToolCall
  <2>4. QED
    BY <1>1, <2>1, <2>2, <2>3
<1>4. CASE ToolAnswers
  <2> DEFINE c == left[Len(left)]
  <2>1. left # << >> /\ c \in Event /\ IsToolCall(c)
    BY <1>4 DEF ToolAnswers, Newest
  <2>2. left' = Append(left, Result(c.of)) /\ Result(c.of) \in Event
    BY <1>4, <2>1, LoopEvents DEF ToolAnswers, Newest
  <2>3. HasContent(Result(c.of)) /\ HasContent(c)
    BY <2>1 DEF Result, HasContent, IsToolCall
  <2>4. Follows(c, Result(c.of))
    BY <2>3 DEF Follows
  <2> DEFINE e == Result(c.of)
  <2>5. e \in Event /\ left' = Append(left, e) /\ Follows(left[Len(left)], e)
    BY <2>2, <2>4
  <2> HIDE DEF e
  <2>6. QED
    BY <1>1, <2>1, <2>5
<1>5. CASE Truncate
  <2>1. left' = Truncated(left, KeptByTruncation)
    BY <1>5 DEF Truncate
  <2>2. QED
    BY <2>1, TruncationAssumption, TruncatedHasShape
<1>6. QED
  BY <1>2, <1>3, <1>4, <1>5 DEF LoopNext

(* The first event with content after place i, if the next one has some.   *)
LEMMA NextIsNext ==
  ASSUME left \in Seq(Event), LoopShape(left), NEW i \in DOMAIN left
  PROVE  /\ IsToolCall(left[i]) =>
              (CallAnswered(i) <=> i < Len(left) /\ IsToolResult(left[i + 1]))
         /\ IsToolResult(left[i]) =>
              (ResultCalledFor(i) <=> i > 1 /\ IsToolCall(left[i - 1]))
<1> DEFINE N == Len(left)
<1>1. N \in Nat /\ DOMAIN left = 1..N /\ i \in 1..N
  OBVIOUS
<1> HIDE DEF N
<1>2. ASSUME IsToolCall(left[i])
      PROVE  CallAnswered(i) <=> i < N /\ IsToolResult(left[i + 1])
  <2> DEFINE T == NextContent(i)
  <2>1. T = {j \in 1..N : j > i /\ HasContent(left[j])}
    BY <1>1, SameKeeping DEF NextContent
  <2>2. CASE i < N
    <3>1. i + 1 \in 2..N /\ (i + 1) - 1 = i
      BY <1>1, <2>2
    <3>2. HasContent(left[i + 1])
      BY <1>2, <3>1 DEF LoopShape, Follows, N
    <3>3. i + 1 \in T /\ \A j \in T : i + 1 <= j
      BY <1>1, <2>1, <2>2, <3>2
    <3>4. \A x \in T : (\A y \in T : x <= y) => x = i + 1
      <4>1. \A x \in T : x \in Nat
        BY <2>1
      <4> HIDE DEF T
      <4>2. QED
        BY <1>1, <3>3, <4>1
    <3> HIDE DEF T
    <3>5. Least(T) = i + 1
      BY <3>3, <3>4 DEF Least
    <3>6. QED
      BY <2>2, <3>3, <3>5, SameKeeping DEF CallAnswered, T
  <2>3. CASE ~(i < N)
    <3>1. T = {}
      BY <1>1, <2>1, <2>3
    <3>2. QED
      BY <2>3, <3>1 DEF CallAnswered
  <2>4. QED
    BY <2>2, <2>3
<1>3. ASSUME IsToolResult(left[i])
      PROVE  ResultCalledFor(i) <=> i > 1 /\ IsToolCall(left[i - 1])
  <2> DEFINE T == PrevContent(i)
  <2>1. T = {j \in 1..N : j < i /\ HasContent(left[j])}
    BY <1>1, SameKeeping DEF PrevContent
  <2>2. CASE i > 1
    <3>1. i \in 2..N
      BY <1>1, <2>2
    <3>2. HasContent(left[i - 1])
      BY <1>3, <3>1 DEF LoopShape, Follows, N
    <3>3. i - 1 \in T /\ \A j \in T : i - 1 >= j
      BY <1>1, <2>1, <2>2, <3>2
    <3>4. \A x \in T : (\A y \in T : x >= y) => x = i - 1
      <4>1. \A x \in T : x \in Nat
        BY <2>1
      <4> HIDE DEF T
      <4>2. QED
        BY <1>1, <3>3, <4>1
    <3> HIDE DEF T
    <3>5. Greatest(T) = i - 1
      BY <3>3, <3>4 DEF Greatest
    <3>6. QED
      BY <2>2, <3>3, <3>5 DEF ResultCalledFor, T
  <2>3. CASE ~(i > 1)
    <3>1. T = {}
      BY <1>1, <2>1, <2>3
    <3>2. QED
      BY <2>3, <3>1 DEF ResultCalledFor
  <2>4. QED
    BY <2>2, <2>3
<1>4. QED
  BY <1>2, <1>3 DEF N

(* validate_session drops the calls without a response and the responses   *)
(* without a call, and only those, in any history the agent loop leaves.   *)
THEOREM ValidationDropsOrphans == LoopSpec => []ValidateDropsExactlyOrphans
<1> DEFINE Inv == LoopInv /\ LoopShape(left)
<1>1. LoopInit => Inv
  <2>1. ResultsIn(<< >>) = {} /\ << >> \in Seq(Event) /\ LoopShape(<< >>)
    BY DEF ResultsIn, LoopShape
  <2>2. QED
    BY <2>1 DEF LoopInit, LoopInv, Mendable
<1>2. Inv /\ [LoopNext]_left => Inv'
  BY LoopStep, LoopShapeStep DEF LoopInv
<1>3. Inv => ValidateDropsExactlyOrphans
  <2> SUFFICES ASSUME Inv PROVE Validated(left) = WithoutOrphans
    BY DEF ValidateDropsExactlyOrphans
  <2>1. left \in Seq(Event) /\ Mendable(left) /\ LoopShape(left)
    BY DEF LoopInv
  <2>2. Validated(left) = Keep(left, Paired(left))
    BY <2>1, ValidatedArePaired
  <2>3. Paired(left) = {i \in DOMAIN left : /\ IsToolCall(left[i]) => CallAnswered(i)
                                            /\ IsToolResult(left[i]) => ResultCalledFor(i)}
    BY <2>1, NextIsNext DEF Paired
  <2>4. WithoutOrphans = Keep(left, Paired(left))
    BY <2>3, SameKeeping DEF WithoutOrphans
  <2>5. QED
    BY <2>2, <2>4
<1>4. QED
  BY <1>1, <1>2, <1>3, PTL DEF LoopSpec

=============================================================================
