------------------------ MODULE CompactingRun_proofs ------------------------
(***************************************************************************)
(* The child session of an agent (CompactingRun), for runs of any number   *)
(* and length, weights, windows and thresholds: however often the session  *)
(* is compacted, pairs are broken by failed runs and where truncation cut  *)
(* only, the model goes on with less than the threshold and the message    *)
(* that started the runner, and a truncated history keeps its longest      *)
(* ending that fits.                                                       *)
(*                                                                         *)
(* What a session weighs is a sum along it, which is proved to follow its  *)
(* recursion once and used through that (SizeRecursion).                   *)
(***************************************************************************)
EXTENDS CompactingRun, SessionEvents_proofs

----------------------------------------------------------------------------
(* A sum along a sequence exists. *)
SumBody(N, w, g) == [n \in 0..N |-> IF n = 0 THEN 0 ELSE g[n - 1] + w[n]]

LEMMA SumExists ==
  ASSUME NEW N \in Nat, NEW w \in [1..N -> Nat]
  PROVE  \E g \in [0..N -> Nat] : g = SumBody(N, w, g)
<1> DEFINE F == [p \in Nat \X (1..N) |-> p[1] + w[p[2]]]
<1>1. F \in [Nat \X (1..N) -> Nat]
  OBVIOUS
<1>2. PICK g \in Iterates(N, Nat, 0, F) : TRUE
  <2> HIDE DEF F
  <2> QED
    BY <1>1, Iteration, ZenonT(60)
<1>3. g \in [0..N -> Nat] /\ g[0] = 0 /\ \A n \in 1..N : g[n] = F[<<g[n - 1], n>>]
  <2> HIDE DEF F
  <2> QED
    BY <1>2 DEF Iterates
<1>4. ASSUME NEW n \in 0..N
      PROVE  g[n] = IF n = 0 THEN 0 ELSE g[n - 1] + w[n]
  <2>1. CASE n # 0
    <3>1. n \in 1..N /\ n - 1 \in 0..N
      BY <2>1
    <3>2. <<g[n - 1], n>> \in Nat \X (1..N) /\ g[n] = F[<<g[n - 1], n>>]
      <4> HIDE DEF F
      <4> QED
        BY <1>3, <3>1
    <3>3. QED
      BY <2>1, <3>2
  <2>2. QED
    BY <1>3, <2>1
<1>5. g = [n \in 0..N |-> g[n]]
  BY <1>3
<1>6. QED
  BY <1>3, <1>4, <1>5 DEF SumBody

LEMMA SumAgrees ==
  ASSUME NEW N \in Nat, NEW w \in [1..N -> Nat], NEW M \in 0..N, NEW v, NEW g, NEW h,
         g = SumBody(N, w, g), h = SumBody(M, v, h), \A n \in 1..M : v[n] = w[n]
  PROVE  /\ h[M] = g[M] /\ g[M] \in Nat
         /\ M < N => g[M + 1] = g[M] + w[M + 1]
<1>1. /\ \A n \in 0..N : g[n] = IF n = 0 THEN 0 ELSE g[n - 1] + w[n]
      /\ \A n \in 0..M : h[n] = IF n = 0 THEN 0 ELSE h[n - 1] + v[n]
  BY DEF SumBody
<1> DEFINE S == {n \in 0..M : h[n] = g[n] /\ g[n] \in Nat}
<1>2. 0 \in S
  BY <1>1
<1>3. ASSUME NEW n \in 0..M, n \in S, n < M PROVE n + 1 \in S
  <2>1. n + 1 \in 0..M /\ n + 1 \in 0..N /\ n + 1 \in 1..M /\ n + 1 \in 1..N
        /\ n + 1 # 0 /\ (n + 1) - 1 = n
    BY <1>3
  <2>2. h[n + 1] = h[n] + v[n + 1] /\ g[n + 1] = g[n] + w[n + 1] /\ w[n + 1] \in Nat
    BY <1>1, <2>1
  <2>3. QED
    BY <1>3, <2>1, <2>2
<1>4. \A n \in 0..M : n \in S
  <2> HIDE DEF S
  <2>1. M \in Nat
    OBVIOUS
  <2> QED
    BY <1>2, <1>3, <2>1, BoundedInduction
<1>5. ASSUME M < N PROVE g[M + 1] = g[M] + w[M + 1]
  <2>1. M + 1 \in 0..N /\ M + 1 # 0 /\ (M + 1) - 1 = M
    BY <1>5
  <2>2. QED
    BY <1>1, <2>1
<1>6. M \in 0..M
  OBVIOUS
<1>7. QED
  BY <1>4, <1>5, <1>6

(* The tokens of a session, event by event.                                *)
ChildEvent == [kind : TextKinds, of : Turns] \cup [kind : ToolKinds, of : Tools]

SizeBody(s, g) ==
  [n \in 0..Len(s) |-> IF n = 0 THEN 0 ELSE g[n - 1] + Weight[s[n].kind]]

LEMMA ChildEventFacts ==
  /\ ChildEvent \subseteq Event
  /\ \A e \in ChildEvent : Weight[e.kind] \in Nat
  /\ \A t \in Turns : /\ UserText(t) \in ChildEvent /\ AgentText(t) \in ChildEvent
                      /\ Summary(t) \in ChildEvent
                      /\ UserText(t).kind \notin ToolKinds
                      /\ AgentText(t).kind \notin ToolKinds
                      /\ Summary(t).kind \notin ToolKinds
  /\ \A t \in Tools : /\ Call(t) \in ChildEvent /\ IsToolCall(Call(t))
                      /\ Result(t) \in ChildEvent /\ IsToolResult(Result(t))
                      /\ ~IsToolCall(Result(t))
                      /\ Call(t).of = t /\ Result(t).of = t
  /\ \A e \in ChildEvent : IsToolCall(e) => e.of \in Tools
<1>1. Weight \in [TextKinds \cup ToolKinds -> Nat]
  BY CompactingRunAssumption
<1>2. \A e \in ChildEvent : e.kind \in TextKinds \cup ToolKinds
  BY DEF ChildEvent
<1>3. ChildEvent \subseteq Event
  BY DEF ChildEvent, Event, TextKinds, ToolKinds
<1>4. \A e \in ChildEvent : Weight[e.kind] \in Nat
  BY <1>1, <1>2
<1>5. \A t \in Turns : /\ UserText(t) \in ChildEvent /\ AgentText(t) \in ChildEvent
                       /\ Summary(t) \in ChildEvent
                       /\ UserText(t).kind \notin ToolKinds
                       /\ AgentText(t).kind \notin ToolKinds
                       /\ Summary(t).kind \notin ToolKinds
  BY DEF ChildEvent, UserText, AgentText, Summary, TextKinds, ToolKinds
<1>6. \A t \in Tools : /\ Call(t) \in ChildEvent /\ IsToolCall(Call(t))
                       /\ Result(t) \in ChildEvent /\ IsToolResult(Result(t))
                       /\ ~IsToolCall(Result(t))
                       /\ Call(t).of = t /\ Result(t).of = t
  BY DEF ChildEvent, Call, Result, TextKinds, ToolKinds, IsToolCall, IsToolResult
<1>7. \A e \in ChildEvent : IsToolCall(e) => e.of \in Tools
  BY DEF ChildEvent, IsToolCall, TextKinds
<1>8. QED
  BY <1>3, <1>4, <1>5, <1>6, <1>7

LEMMA SizeRecursion ==
  ASSUME NEW s \in Seq(ChildEvent)
  PROVE  \E g : g = SizeBody(s, g) /\ Size(s) = g[Len(s)]
<1> DEFINE w == [n \in 1..Len(s) |-> Weight[s[n].kind]]
<1>1. Len(s) \in Nat /\ \A n \in 1..Len(s) : s[n] \in ChildEvent
  OBVIOUS
<1>2. w \in [1..Len(s) -> Nat]
  BY <1>1, ChildEventFacts
<1>3. PICK g \in [0..Len(s) -> Nat] : g = SumBody(Len(s), w, g)
  <2> HIDE DEF w
  <2> QED
    BY <1>1, <1>2, SumExists
<1>4. SumBody(Len(s), w, g) = SizeBody(s, g)
  <2>1. \A n \in 0..Len(s) : n # 0 => n \in 1..Len(s)
    BY <1>1
  <2>2. \A n \in 0..Len(s) :
          (IF n = 0 THEN 0 ELSE g[n - 1] + w[n]) = (IF n = 0 THEN 0 ELSE g[n - 1] + Weight[s[n].kind])
    BY <2>1
  <2>3. QED
    BY <2>2 DEF SumBody, SizeBody
<1> DEFINE f == CHOOSE h : h = SizeBody(s, h)
<1>5. f = SizeBody(s, f)
  <2>1. g = SizeBody(s, g)
    BY <1>3, <1>4
  <2>2. QED
    BY <2>1
<1>6. Size(s) = f[Len(s)]
  BY DEF Size, SizeBody
<1>7. QED
  BY <1>5, <1>6

LEMMA SizeEmpty == Size(<< >>) = 0
<1>1. << >> \in Seq(ChildEvent) /\ Len(<< >>) = 0
  OBVIOUS
<1>2. PICK g : g = SizeBody(<< >>, g) /\ Size(<< >>) = g[Len(<< >>)]
  BY <1>1, SizeRecursion
<1>3. g[0] = 0
  BY <1>1, <1>2 DEF SizeBody
<1>4. QED
  BY <1>1, <1>2, <1>3

LEMMA SizeAppend ==
  ASSUME NEW s \in Seq(ChildEvent), NEW e \in ChildEvent
  PROVE  /\ Size(s) \in Nat
         /\ Size(Append(s, e)) = Size(s) + Weight[e.kind]
<1> DEFINE t == Append(s, e)
           N == Len(s)
           w == [n \in 1..(N + 1) |-> Weight[t[n].kind]]
           v == [n \in 1..N |-> Weight[s[n].kind]]
<1>1. /\ N \in Nat /\ t \in Seq(ChildEvent) /\ Len(t) = N + 1 /\ t[N + 1] = e
      /\ \A n \in 1..N : t[n] = s[n]
      /\ \A n \in 1..(N + 1) : t[n] \in ChildEvent
  OBVIOUS
<1>2. PICK h : h = SizeBody(s, h) /\ Size(s) = h[N]
  BY SizeRecursion
<1>3. PICK g : g = SizeBody(t, g) /\ Size(t) = g[N + 1]
  <2> HIDE DEF t
  <2>1. \E g : g = SizeBody(t, g) /\ Size(t) = g[Len(t)]
    BY <1>1, SizeRecursion
  <2>2. QED
    BY <1>1, <2>1
<1>4. h = SumBody(N, v, h)
  <2>1. \A n \in 0..N : n # 0 => n \in 1..N
    BY <1>1
  <2>2. \A n \in 0..N :
          (IF n = 0 THEN 0 ELSE h[n - 1] + v[n]) = (IF n = 0 THEN 0 ELSE h[n - 1] + Weight[s[n].kind])
    BY <2>1
  <2>3. SumBody(N, v, h) = SizeBody(s, h)
    BY <2>2 DEF SumBody, SizeBody
  <2>4. QED
    BY <1>2, <2>3
<1>5. g = SumBody(N + 1, w, g)
  <2> HIDE DEF t, N
  <2>1. \A n \in 0..(N + 1) : n # 0 => n \in 1..(N + 1)
    BY <1>1
  <2>2. \A n \in 0..(N + 1) :
          (IF n = 0 THEN 0 ELSE g[n - 1] + w[n]) = (IF n = 0 THEN 0 ELSE g[n - 1] + Weight[t[n].kind])
    BY <2>1
  <2>3. SumBody(N + 1, w, g) = SizeBody(t, g)
    BY <1>1, <2>2 DEF SumBody, SizeBody
  <2>4. QED
    BY <1>3, <2>3
<1>6. w \in [1..(N + 1) -> Nat] /\ w[N + 1] = Weight[e.kind] /\ \A n \in 1..N : v[n] = w[n]
  <2> HIDE DEF t, N
  <2>1. w \in [1..(N + 1) -> Nat]
    BY <1>1, ChildEventFacts
  <2>2. N + 1 \in 1..(N + 1) /\ \A n \in 1..N : n \in 1..(N + 1)
    BY <1>1
  <2>3. QED
    BY <1>1, <2>1, <2>2 DEF N
<1>7. h[N] = g[N] /\ g[N] \in Nat /\ g[N + 1] = g[N] + w[N + 1]
  <2> HIDE DEF t, N, w, v
  <2>1. N + 1 \in Nat /\ N \in 0..(N + 1) /\ N < N + 1
    BY <1>1
  <2>2. N + 1 \in Nat /\ w \in [1..(N + 1) -> Nat] /\ g = SumBody(N + 1, w, g)
        /\ h = SumBody(N, v, h) /\ \A n \in 1..N : v[n] = w[n]
    BY <1>4, <1>5, <1>6, <2>1
  <2> DEFINE M == N + 1
  <2>3. M \in Nat /\ w \in [1..M -> Nat] /\ g = SumBody(M, w, g) /\ N \in 0..M /\ N < M
    BY <2>1, <2>2
  <2>4. /\ h[N] = g[N] /\ g[N] \in Nat
        /\ N < M => g[N + 1] = g[N] + w[N + 1]
    <3> HIDE DEF M
    <3> QED
      BY <2>2, <2>3, SumAgrees, SMTT(60)
  <2>5. QED
    BY <2>3, <2>4
<1>8. QED
  <2> HIDE DEF w, v, N
  <2> QED
    BY <1>2, <1>3, <1>6, <1>7 DEF N

----------------------------------------------------------------------------
(* What compaction makes of a session.                                     *)

(* Of the events before a only the first may be kept.                      *)
LEMMA KeepLength ==
  ASSUME NEW E, NEW s \in Seq(E), NEW a \in Nat, a >= 2, NEW I,
         \A i \in I : i = 1 \/ i >= a
  PROVE  Len(Keep(s, I)) <= IF Len(s) < a THEN 1 ELSE (Len(s) - a) + 2
<1> DEFINE Limit(n) == IF n = 0 THEN 0 ELSE IF n < a THEN 1 ELSE (n - a) + 2
           S == {u \in Seq(E) : Len(Keep(u, I)) <= Limit(Len(u))}
<1>1. << >> \in S
  BY KeepEmpty
<1>2. ASSUME NEW u \in Seq(E), NEW e \in E, u \in S PROVE Append(u, e) \in S
  <2> DEFINE n == Len(u)
             k == Keep(u, I)
  <2>1. n \in Nat /\ Len(Append(u, e)) = n + 1 /\ Append(u, e) \in Seq(E)
    OBVIOUS
  <2>2. /\ k \in Seq(E) /\ Len(k) \in Nat /\ Len(Append(k, e)) = Len(k) + 1
        /\ Keep(Append(u, e), I) = IF n + 1 \in I THEN Append(k, e) ELSE k
    <3>1. k \in Seq(E)
      BY KeepType
    <3>2. Keep(Append(u, e), I) = IF n + 1 \in I THEN Append(k, e) ELSE k
      BY KeepAppend
    <3> HIDE DEF k, n
    <3>3. QED
      BY <3>1, <3>2
  <2>3. Len(k) <= Limit(n)
    BY <1>2
  <2> HIDE DEF n, k
  <2>4. CASE n + 1 \in I
    <3>1. n = 0 \/ n + 1 >= a
      BY <2>1, <2>4
    <3>2. Limit(n) + 1 <= Limit(n + 1)
      BY <2>1, <3>1
    <3>3. Limit(n) \in Nat /\ Limit(n + 1) \in Nat
      BY <2>1
    <3> HIDE DEF Limit
    <3>4. Len(k) + 1 <= Limit(n + 1)
      BY <2>2, <2>3, <3>2, <3>3
    <3>5. QED
      BY <2>1, <2>2, <2>4, <3>4
  <2>5. CASE n + 1 \notin I
    <3>1. Limit(n) <= Limit(n + 1) /\ Limit(n) \in Nat /\ Limit(n + 1) \in Nat
      BY <2>1
    <3> HIDE DEF Limit
    <3>2. QED
      BY <2>1, <2>2, <2>3, <2>5, <3>1
  <2>6. QED
    BY <2>4, <2>5
<1>3. s \in S
  <2> HIDE DEF S
  <2> QED
    BY <1>1, <1>2, SequenceInduction
<1>4. Len(Keep(s, I)) <= Limit(Len(s))
  BY <1>3
<1>5. Len(s) \in Nat /\ Len(Keep(s, I)) \in Nat
  BY KeepType
<1>6. QED
  BY <1>4, <1>5

LEMMA TruncatedLength ==
  ASSUME NEW E, NEW s \in Seq(E), NEW k \in Nat
  PROVE  Truncated(s, k) \in Seq(E) /\ Len(Truncated(s, k)) <= k + 1
<1> DEFINE opening == IF s[1].kind \in {"user", "system"} THEN {1} ELSE {}
           I == opening \cup (Len(s) - k + 1)..Len(s)
<1>1. CASE Len(s) <= k + 1
  BY <1>1 DEF Truncated
<1>2. CASE ~(Len(s) <= k + 1)
  <2> DEFINE n == Len(s)
             a == n - k + 1
  <2>1. n \in Nat /\ a \in Nat /\ a >= 2 /\ a <= n + 1 /\ (n - a) + 2 = k + 1 /\ n >= 1
    BY <1>2
  <2>2. \A i \in I : i = 1 \/ i >= a
    BY <2>1
  <2>3. Truncated(s, k) = Keep(s, I)
    BY <1>2 DEF Truncated
  <2> HIDE DEF I, a
  <2>4. Len(Keep(s, I)) <= IF n < a THEN 1 ELSE (n - a) + 2
    BY <2>1, <2>2, KeepLength
  <2>5. Keep(s, I) \in Seq(E)
    BY KeepType
  <2> HIDE DEF n
  <2>6. QED
    BY <2>1, <2>3, <2>4, <2>5
<1>3. QED
  BY <1>1, <1>2

LEMMA SummarizedFacts ==
  ASSUME NEW E, NEW s \in Seq(E), NEW t, Summary(t) \in E
  PROVE  /\ Summarized(s, t) \in Seq(E)
         /\ Len(Summarized(s, t)) <= 2
         /\ Len(s) > 1 => \A i \in DOMAIN Summarized(s, t) : Summarized(s, t)[i].kind \notin ToolKinds
<1> DEFINE I == IF s[1].kind = "system" THEN {1} ELSE {}
           k == Keep(s, I)
           r == k \o <<Summary(t)>>
<1>1. CASE ~(Len(s) > 1)
  BY <1>1 DEF Summarized
<1>2. CASE Len(s) > 1
  <2>1. Len(s) \in Nat /\ ~(Len(s) <= 1) /\ \A i \in I : i = 1
    BY <1>2
  <2>2. Summarized(s, t) = r
    BY <2>1 DEF Summarized
  <2>3. k \in Seq({s[i] : i \in I \cap DOMAIN s}) /\ k \in Seq(E)
    BY KeepMembers, KeepType
  <2>4. Len(k) <= 1
    <3> DEFINE a == Len(s) + 1
    <3>1. a \in Nat /\ a >= 2 /\ Len(s) < a /\ \A i \in I : i = 1 \/ i >= a
      BY <1>2, <2>1
    <3> HIDE DEF a, I
    <3>2. Len(Keep(s, I)) <= IF Len(s) < a THEN 1 ELSE (Len(s) - a) + 2
      BY <3>1, KeepLength
    <3>3. QED
      BY <3>1, <3>2
  <2>5. \A n \in 1..Len(k) : k[n].kind \notin ToolKinds
    <3>1. \A e \in {s[i] : i \in I \cap DOMAIN s} : e.kind \notin ToolKinds
      BY DEF ToolKinds
    <3>2. \A n \in 1..Len(k) : k[n] \in {s[i] : i \in I \cap DOMAIN s}
      <4> HIDE DEF I
      <4> DEFINE M == {s[i] : i \in I \cap DOMAIN s}
      <4>1. k \in Seq(M)
        BY <2>3
      <4> HIDE DEF M, k
      <4>2. \A n \in 1..Len(k) : k[n] \in M
        BY <4>1
      <4>3. QED
        BY <4>2 DEF M
    <3> HIDE DEF I, k
    <3>3. QED
      BY <3>1, <3>2
  <2> HIDE DEF k
  <2>6. /\ r \in Seq(E) /\ Len(r) = Len(k) + 1 /\ Len(k) \in Nat
        /\ r[Len(k) + 1] = Summary(t) /\ \A n \in 1..Len(k) : r[n] = k[n]
    BY <2>3
  <2>7. Summary(t).kind \notin ToolKinds
    BY DEF Summary, ToolKinds
  <2> HIDE DEF r
  <2>8. \A n \in DOMAIN r : r[n].kind \notin ToolKinds
    BY <2>5, <2>6, <2>7
  <2>9. QED
    BY <2>2, <2>4, <2>6, <2>8
<1>3. QED
  BY <1>1, <1>2

----------------------------------------------------------------------------
(* Truncation keeps the first event, or not, and an ending.                *)
HasEnding(u, k, o, a) ==
  /\ Len(k) = (IF Len(u) = 0 THEN 0 ELSE o) + (IF Len(u) < a THEN 0 ELSE (Len(u) - a) + 1)
  /\ Len(u) > 0 /\ o = 1 => k[1] = u[1]
  /\ \A j \in a..Len(u) : k[o + (j - a) + 1] = u[j]

LEMMA KeepEnding ==
  ASSUME NEW E, NEW s \in Seq(E), NEW a \in Nat, a >= 2, NEW o \in {0, 1}, NEW I,
         \A i \in 1..Len(s) : i \in I <=> (i = 1 /\ o = 1) \/ i >= a
  PROVE  HasEnding(s, Keep(s, I), o, a)
<1> DEFINE N == Len(s)
           S == {u \in Seq(E) : Len(u) <= N => HasEnding(u, Keep(u, I), o, a)}
<1>0. N \in Nat
  OBVIOUS
<1>1. << >> \in S
  <2>1. << >> \in Seq(E) /\ Len(<< >>) = 0 /\ Keep(<< >>, I) = << >>
    BY KeepEmpty
  <2>2. QED
    BY <2>1 DEF HasEnding
<1>2. ASSUME NEW u \in Seq(E), NEW e \in E, u \in S PROVE Append(u, e) \in S
  <2>1. PICK n \in Nat : n = Len(u)
    OBVIOUS
  <2>2. PICK k \in Seq(E) : k = Keep(u, I)
    BY KeepType
  <2>3. PICK t \in Seq(E) : t = Append(u, e)
    <3>1. Append(u, e) \in Seq(E)
      OBVIOUS
    <3>2. QED
      BY <3>1
  <2> SUFFICES ASSUME n + 1 <= N PROVE HasEnding(t, Keep(t, I), o, a)
    BY <2>1, <2>3
  <2>4. Len(t) = n + 1 /\ t[n + 1] = e /\ \A j \in 1..n : t[j] = u[j]
    BY <2>1, <2>3
  <2>5. HasEnding(u, k, o, a)
    BY <1>0, <1>2, <2>1, <2>2
  <2>6. /\ Len(k) = (IF n = 0 THEN 0 ELSE o) + (IF n < a THEN 0 ELSE (n - a) + 1)
        /\ n > 0 /\ o = 1 => k[1] = u[1]
        /\ \A j \in a..n : k[o + (j - a) + 1] = u[j]
    BY <2>1, <2>5 DEF HasEnding
  <2>7. Keep(t, I) = IF n + 1 \in I THEN Append(k, e) ELSE k
    BY <2>1, <2>2, <2>3, KeepAppend
  <2>8. n + 1 \in I <=> (n = 0 /\ o = 1) \/ n + 1 >= a
    BY <1>0
  <2>9. CASE n + 1 \in I
    <3>1. PICK l \in Seq(E) : l = Append(k, e)
      <4>1. Append(k, e) \in Seq(E)
        OBVIOUS
      <4>2. QED
        BY <4>1
    <3>2. /\ Len(l) = Len(k) + 1 /\ l[Len(k) + 1] = e
          /\ Len(k) \in Nat /\ \A i \in 1..Len(k) : l[i] = k[i]
      BY <3>1
    <3>3. CASE n = 0 /\ o = 1
      <4>1. Len(k) = 0 /\ Len(l) = 1 /\ l[1] = e /\ Len(t) = 1 /\ t[1] = e
        BY <2>4, <2>6, <3>2, <3>3
      <4>2. HasEnding(t, l, o, a)
        BY <3>3, <4>1 DEF HasEnding
      <4>3. QED
        BY <2>7, <2>9, <3>1, <4>2
    <3>4. CASE ~(n = 0 /\ o = 1)
      <4>1. n + 1 >= a /\ n >= 1
        BY <2>8, <2>9, <3>4
      <4>2. Len(k) = o + (n - a) + 1
        BY <2>6, <4>1
      <4>3. o = 1 => l[1] = t[1]
        <5> SUFFICES ASSUME o = 1 PROVE l[1] = t[1]
          OBVIOUS
        <5>1. 1 \in 1..Len(k) /\ 1 \in 1..n
          BY <4>1, <4>2
        <5>2. QED
          BY <2>4, <2>6, <3>2, <4>1, <5>1
      <4>4. ASSUME NEW j \in a..(n + 1) PROVE l[o + (j - a) + 1] = t[j]
        <5>1. CASE j = n + 1
          <6>1. o + (j - a) + 1 = Len(k) + 1
            BY <4>2, <5>1
          <6>2. QED
            BY <2>4, <3>2, <5>1, <6>1
        <5>2. CASE j # n + 1
          <6>1. j \in a..n /\ j \in 1..n /\ o + (j - a) + 1 \in 1..Len(k)
            BY <4>2, <5>2
          <6>2. QED
            BY <2>4, <2>6, <3>2, <6>1
        <5>3. QED
          BY <5>1, <5>2
      <4>5. Len(l) = o + ((n + 1) - a) + 1
        BY <3>2, <4>2
      <4>6. HasEnding(t, l, o, a)
        BY <2>4, <4>1, <4>3, <4>4, <4>5, SMTT(40) DEF HasEnding
      <4>7. QED
        BY <2>7, <2>9, <3>1, <4>6
    <3>5. QED
      BY <3>3, <3>4
  <2>10. CASE n + 1 \notin I
    <3>1. n + 1 < a /\ (n = 0 => o = 0)
      BY <2>8, <2>10
    <3>2. Len(k) = IF n = 0 THEN 0 ELSE o
      BY <2>6, <3>1
    <3>3. HasEnding(t, k, o, a)
      BY <2>4, <2>6, <3>1, <3>2 DEF HasEnding
    <3>4. QED
      BY <2>7, <2>10, <3>3
  <2>11. QED
    BY <2>9, <2>10
<1>3. s \in S
  <2> HIDE DEF S
  <2> QED
    BY <1>1, <1>2, SequenceInduction
<1>4. QED
  BY <1>0, <1>3

(* Calls have their responses but where the last event waits for one, and  *)
(* responses their calls but, if there are cuts, the one after a cut.      *)
CutIn(s) == IF s[1].kind \in {"user", "system"} THEN 2 ELSE 1

Linked(s, cuts) ==
  /\ \A i \in 1..Len(s) : s[i].kind = "call" => i = Len(s) \/ s[i + 1].kind = "result"
  /\ \A i \in 1..Len(s) : s[i].kind = "result" =>
       \/ i > 1 /\ s[i - 1].kind = "call" /\ s[i - 1].of = s[i].of
       \/ cuts /\ i = CutIn(s)

(* No call waits. *)
Settled(s) == s = << >> \/ s[Len(s)].kind # "call"

LEMMA PlainIsLinked ==
  ASSUME NEW E, NEW s \in Seq(E), NEW cuts, \A i \in 1..Len(s) : s[i].kind \notin ToolKinds
  PROVE  Linked(s, cuts) /\ Settled(s)
<1>1. s = << >> \/ Len(s) \in 1..Len(s)
  OBVIOUS
<1>2. QED
  BY <1>1 DEF Linked, Settled, ToolKinds

LEMMA LinkedAppend ==
  ASSUME NEW E, NEW s \in Seq(E), NEW e \in E, NEW cuts, Linked(s, cuts), Settled(s),
         e.kind # "result"
  PROVE  Linked(Append(s, e), cuts)
<1>1. PICK n \in Nat : n = Len(s)
  OBVIOUS
<1>2. PICK t \in Seq(E) : t = Append(s, e)
  <2>1. Append(s, e) \in Seq(E)
    OBVIOUS
  <2>2. QED
    BY <2>1
<1>3. Len(t) = n + 1 /\ t[n + 1] = e /\ \A i \in 1..n : t[i] = s[i]
  BY <1>1, <1>2
<1>4. ASSUME NEW i \in 1..(n + 1), t[i].kind = "call"
      PROVE  i = n + 1 \/ t[i + 1].kind = "result"
  <2> SUFFICES ASSUME i # n + 1 PROVE t[i + 1].kind = "result"
    OBVIOUS
  <2>1. i \in 1..n /\ s[i].kind = "call" /\ s # << >>
    BY <1>1, <1>3, <1>4
  <2>2. i # n /\ i + 1 \in 1..n
    BY <1>1, <2>1 DEF Settled
  <2>3. QED
    BY <1>1, <1>3, <2>1, <2>2 DEF Linked
<1>5. ASSUME NEW i \in 1..(n + 1), t[i].kind = "result"
      PROVE  \/ i > 1 /\ t[i - 1].kind = "call" /\ t[i - 1].of = t[i].of
             \/ cuts /\ i = CutIn(t)
  <2>1. i \in 1..n /\ s[i].kind = "result" /\ 1 \in 1..n
    BY <1>3, <1>5
  <2>2. CutIn(t) = CutIn(s)
    BY <1>3, <2>1 DEF CutIn
  <2>3. i > 1 => i - 1 \in 1..n
    BY <2>1
  <2>4. QED
    BY <1>1, <1>3, <2>1, <2>2, <2>3 DEF Linked
<1>6. QED
  BY <1>2, <1>3, <1>4, <1>5 DEF Linked

LEMMA LinkedAnswer ==
  ASSUME NEW E, NEW s \in Seq(E), NEW e \in E, NEW cuts, Linked(s, cuts), s # << >>,
         s[Len(s)].kind = "call", e.kind = "result", e.of = s[Len(s)].of
  PROVE  Linked(Append(s, e), cuts)
<1>1. PICK n \in Nat : n = Len(s) /\ n >= 1
  OBVIOUS
<1>2. PICK t \in Seq(E) : t = Append(s, e)
  <2>1. Append(s, e) \in Seq(E)
    OBVIOUS
  <2>2. QED
    BY <2>1
<1>3. Len(t) = n + 1 /\ t[n + 1] = e /\ \A i \in 1..n : t[i] = s[i]
  BY <1>1, <1>2
<1>4. ASSUME NEW i \in 1..(n + 1), t[i].kind = "call"
      PROVE  i = n + 1 \/ t[i + 1].kind = "result"
  <2>1. i \in 1..n /\ s[i].kind = "call"
    BY <1>3, <1>4
  <2>2. CASE i = n
    BY <1>3, <2>2
  <2>3. CASE i # n
    <3>1. i + 1 \in 1..n
      BY <2>1, <2>3
    <3>2. QED
      BY <1>1, <1>3, <2>1, <2>3, <3>1 DEF Linked
  <2>4. QED
    BY <2>2, <2>3
<1>5. ASSUME NEW i \in 1..(n + 1), t[i].kind = "result"
      PROVE  \/ i > 1 /\ t[i - 1].kind = "call" /\ t[i - 1].of = t[i].of
             \/ cuts /\ i = CutIn(t)
  <2>1. CASE i = n + 1
    <3>1. i - 1 = n /\ n \in 1..n /\ i > 1
      BY <1>1, <2>1
    <3>2. QED
      BY <1>1, <1>3, <2>1, <3>1
  <2>2. CASE i # n + 1
    <3>1. i \in 1..n /\ s[i].kind = "result" /\ 1 \in 1..n
      BY <1>3, <1>5, <2>2
    <3>2. CutIn(t) = CutIn(s)
      BY <1>3, <3>1 DEF CutIn
    <3>3. i > 1 => i - 1 \in 1..n
      BY <3>1
    <3>4. QED
      BY <1>1, <1>3, <3>1, <3>2, <3>3 DEF Linked
  <2>3. QED
    BY <2>1, <2>2
<1>6. QED
  BY <1>2, <1>3, <1>4, <1>5 DEF Linked

(* Truncation separates one response from its call at most, after the      *)
(* event it keeps at the beginning.                                        *)
LEMMA LinkedTruncated ==
  ASSUME NEW E, NEW s \in Seq(E), NEW m \in Nat, Linked(s, TRUE), Settled(s)
  PROVE  Linked(Truncated(s, m), TRUE) /\ Settled(Truncated(s, m))
<1> DEFINE opening == IF s[1].kind \in {"user", "system"} THEN {1} ELSE {}
           I == opening \cup (Len(s) - m + 1)..Len(s)
<1>1. CASE Len(s) <= m + 1
  BY <1>1 DEF Truncated
<1>2. CASE ~(Len(s) <= m + 1)
  <2>1. PICK n \in Nat : n = Len(s) /\ n > m + 1
    BY <1>2
  <2>2. PICK a \in Nat : a = n - m + 1 /\ a >= 2 /\ a <= n + 1
    BY <2>1
  <2>3. PICK o \in {0, 1} : o = IF s[1].kind \in {"user", "system"} THEN 1 ELSE 0
    OBVIOUS
  <2>4. \A i \in 1..n : i \in I <=> (i = 1 /\ o = 1) \/ i >= a
    BY <2>1, <2>2, <2>3
  <2>5. Truncated(s, m) = Keep(s, I)
    BY <1>2 DEF Truncated
  <2> HIDE DEF I
  <2>6. PICK r \in Seq(E) : r = Truncated(s, m) /\ HasEnding(s, r, o, a)
    <3>1. \A i \in 1..Len(s) : i \in I <=> (i = 1 /\ o = 1) \/ i >= a
      BY <2>1, <2>4
    <3>2. HasEnding(s, Keep(s, I), o, a)
      BY <2>2, <3>1, KeepEnding
    <3>3. QED
      BY <2>5, <3>2, KeepType
  <2>7. /\ Len(r) = o + m
        /\ o = 1 => r[1] = s[1]
        /\ \A j \in a..n : r[o + (j - a) + 1] = s[j]
    BY <2>1, <2>2, <2>6 DEF HasEnding
  <2>8. \A p \in 1..m : r[o + p] = s[(a + p) - 1] /\ (a + p) - 1 \in 1..n
    <3> SUFFICES ASSUME NEW p \in 1..m
                 PROVE  r[o + p] = s[(a + p) - 1] /\ (a + p) - 1 \in 1..n
      OBVIOUS
    <3>1. (a + p) - 1 \in a..n /\ o + (((a + p) - 1) - a) + 1 = o + p
      BY <2>2
    <3>2. QED
      BY <2>2, <2>7, <3>1, SMTT(40)
  <2>9. s # << >> /\ s[n].kind # "call"
    BY <2>1 DEF Settled
  <2>10. ASSUME NEW i \in 1..(o + m)
         PROVE  (o = 1 /\ i = 1) \/ \E p \in 1..m : i = o + p
    <3>1. CASE i > o
      <4>1. i - o \in 1..m /\ i = o + (i - o)
        BY <3>1
      <4>2. QED
        BY <4>1
    <3>2. CASE ~(i > o)
      BY <3>2
    <3>3. QED
      BY <3>1, <3>2
  <2>11. o = 1 => r[1].kind \in {"user", "system"}
    BY <2>3, <2>7
  <2>12. ASSUME NEW i \in 1..(o + m), r[i].kind = "call"
         PROVE  i = o + m \/ r[i + 1].kind = "result"
    <3>1. PICK p \in 1..m : i = o + p
      BY <2>10, <2>11, <2>12
    <3>2. s[(a + p) - 1].kind = "call" /\ (a + p) - 1 \in 1..n
      BY <2>8, <2>12, <3>1
    <3>3. (a + p) - 1 # n
      BY <2>9, <3>2
    <3>4. s[((a + p) - 1) + 1].kind = "result"
      BY <2>1, <3>2, <3>3 DEF Linked
    <3>5. p + 1 \in 1..m
      BY <2>2, <3>2, <3>3
    <3>6. r[o + (p + 1)] = s[(a + (p + 1)) - 1]
      BY <2>8, <3>5
    <3>7. o + (p + 1) = i + 1 /\ (a + (p + 1)) - 1 = ((a + p) - 1) + 1
      BY <3>1
    <3>8. QED
      BY <3>4, <3>6, <3>7
  <2>13. ASSUME NEW i \in 1..(o + m), r[i].kind = "result"
         PROVE  \/ i > 1 /\ r[i - 1].kind = "call" /\ r[i - 1].of = r[i].of
                \/ i = CutIn(r)
    <3>1. PICK p \in 1..m : i = o + p
      BY <2>10, <2>11, <2>13
    <3>2. CASE p = 1
      <4>1. CASE o = 1
        BY <2>11, <3>1, <3>2, <4>1 DEF CutIn
      <4>2. CASE o = 0
        <5>1. i = 1 /\ r[1].kind = "result"
          BY <2>13, <3>1, <3>2, <4>2
        <5>2. QED
          BY <5>1 DEF CutIn
      <4>3. QED
        BY <4>1, <4>2
    <3>3. CASE p # 1
      <4>1. p - 1 \in 1..m /\ i - 1 = o + (p - 1) /\ i > 1
        BY <3>1, <3>3
      <4>2. /\ s[(a + p) - 1].kind = "result" /\ (a + p) - 1 \in 1..n
            /\ (a + p) - 1 >= 3 /\ ((a + p) - 1) - 1 = (a + (p - 1)) - 1
        <5>1. r[o + p] = s[(a + p) - 1] /\ (a + p) - 1 \in 1..n
          BY <2>8
        <5>2. s[(a + p) - 1].kind = "result"
          BY <2>13, <3>1, <5>1
        <5>3. (a + p) - 1 >= 3 /\ ((a + p) - 1) - 1 = (a + (p - 1)) - 1
          BY <2>2, <3>3
        <5>4. QED
          BY <5>1, <5>2, <5>3
      <4>3. (a + p) - 1 # CutIn(s)
        BY <4>2 DEF CutIn
      <4>4. /\ s[((a + p) - 1) - 1].kind = "call"
            /\ s[((a + p) - 1) - 1].of = s[(a + p) - 1].of
        BY <2>1, <4>2, <4>3 DEF Linked
      <4>5. r[i - 1] = s[(a + (p - 1)) - 1] /\ r[i] = s[(a + p) - 1]
        BY <2>8, <3>1, <4>1
      <4>6. QED
        BY <4>1, <4>2, <4>4, <4>5
    <3>4. QED
      BY <3>2, <3>3
  <2>14. Linked(r, TRUE)
    BY <2>7, <2>12, <2>13 DEF Linked
  <2>15. Settled(r)
    <3>1. CASE m = 0
      BY <2>7, <2>11, <3>1 DEF Settled
    <3>2. CASE m # 0
      <4>1. m \in 1..m /\ (a + m) - 1 = n
        BY <2>2, <3>2
      <4>2. r[o + m] = s[n]
        BY <2>8, <4>1
      <4>3. QED
        BY <2>7, <2>9, <4>2 DEF Settled
    <3>3. QED
      BY <3>1, <3>2
  <2>16. QED
    BY <2>6, <2>14, <2>15
<1>3. QED
  BY <1>1, <1>2

----------------------------------------------------------------------------
(* Types of the child session.                                             *)

InRun == pc \in {"running", "checking", "compacting"}

ChildTypeInv ==
  /\ pc \in {"idle", "starting", "running", "checking", "compacting", "done"}
  /\ events \in Seq(ChildEvent)
  /\ tokens \in Nat
  /\ message \in {Prompt, Continue}
  /\ calls \in 0..MaxCalls
  /\ answered \in BOOLEAN
  /\ strategy \in Strategies
  /\ talk \in [1..MaxCalls -> Nat]
  /\ said \in Seq(Nat)
  /\ InRun => events # << >>
  /\ failed \in BOOLEAN
  /\ pc = "running" => ~answered
  /\ pc \in {"checking", "compacting"} => Len(events) >= 2

LEMMA ChildConstants ==
  /\ Prompt \in Turns /\ Continue \in Turns /\ Answer \in Turns /\ SummaryTag \in Turns
  /\ Strategies \subseteq {"truncate", "summarize"}
  /\ KeepRecent \in Nat /\ Threshold \in Nat /\ MaxCalls \in Nat
  /\ Talks \subseteq [1..MaxCalls -> Nat]
  /\ Weight["user"] \in Nat /\ Weight["text"] \in Nat /\ Weight["result"] \in Nat
  /\ Window \in Nat /\ SummarySize \in Nat \ {0}
  /\ Histories \subseteq Seq([kind : {"user", "text"}, of : Turns])
BY CompactingRunAssumption, HistoryAssumption DEF TextKinds, ToolKinds

(* An event of the model: what it adds to the session and to the count.    *)
LEMMA YieldTypes ==
  ASSUME ChildTypeInv, NEW e \in ChildEvent, ModelYields(e)
  PROVE  /\ events' = Append(events, e) /\ events' \in Seq(ChildEvent)
         /\ events' # << >> /\ LastEvent' = e /\ Len(events') = Len(events) + 1
         /\ tokens' \in Nat /\ pc' = "checking"
         /\ Size(events') = Size(events) + Weight[e.kind]
         /\ tokens' \in {tokens + Size(events'), tokens + Weight[e.kind]}
         /\ Size(events) \in Nat /\ Weight[e.kind] \in Nat
         /\ UNCHANGED <<message, talk, history, failed>>
<1>1. /\ events' = Append(events, e) /\ events \in Seq(ChildEvent)
      /\ tokens' \in {tokens + Size(events'), tokens + Weight[e.kind]}
      /\ pc' = "checking" /\ tokens \in Nat
      /\ UNCHANGED <<message, talk, history, failed>>
  BY DEF ModelYields, ChildTypeInv, sessionVars
<1>2. events' \in Seq(ChildEvent) /\ events' # << >> /\ events'[Len(events')] = e
      /\ Len(events') = Len(events) + 1
  BY <1>1
<1>3. /\ Size(events') = Size(events) + Weight[e.kind]
      /\ Size(events) \in Nat /\ Weight[e.kind] \in Nat
  BY <1>1, SizeAppend, ChildEventFacts
<1>4. tokens' \in Nat
  BY <1>1, <1>3
<1>5. QED
  BY <1>1, <1>2, <1>3, <1>4 DEF LastEvent

(* What a compaction leaves.                                               *)
LEMMA CompactedTypes ==
  ASSUME ChildTypeInv
  PROVE  LET c == Compacted(events) IN
         /\ c \in Seq(ChildEvent) /\ Size(c) \in Nat
         /\ Len(c) <= KeepRecent + 1 \/ Len(c) <= 2
         /\ strategy = "summarize" => c = Summarized(events, SummaryTag)
<1>1. /\ events \in Seq(ChildEvent) /\ KeepRecent \in Nat /\ Summary(SummaryTag) \in ChildEvent
  BY ChildConstants, ChildEventFacts DEF ChildTypeInv
<1> DEFINE c == Compacted(events)
           d == Truncated(events, KeepRecent)
           f == Summarized(events, SummaryTag)
<1>2. c = IF strategy = "truncate" THEN d ELSE f
  BY DEF Compacted
<1>3. d \in Seq(ChildEvent) /\ Len(d) <= KeepRecent + 1
  BY <1>1, TruncatedLength
<1>4. f \in Seq(ChildEvent) /\ Len(f) <= 2
  BY <1>1, SummarizedFacts
<1> HIDE DEF c, d, f
<1>5. c \in Seq(ChildEvent) /\ (Len(c) <= KeepRecent + 1 \/ Len(c) <= 2)
      /\ (strategy = "summarize" => c = f)
  BY <1>2, <1>3, <1>4
<1>6. Size(c) \in Nat
  <2> PICK e \in ChildEvent : TRUE
    BY <1>1
  <2>1. QED
    BY <1>5, SizeAppend
<1>7. QED
  BY <1>5, <1>6 DEF c, f

(* What a flow may seed the session with.                                  *)
LEMMA SeedTypes ==
  ASSUME NEW seed \in Histories
  PROVE  seed \in Seq(ChildEvent) /\ \A i \in 1..Len(seed) : seed[i].kind \notin ToolKinds
<1> DEFINE Said == [kind : {"user", "text"}, of : Turns]
<1>1. seed \in Seq(Said)
  BY ChildConstants
<1>2. Said \subseteq ChildEvent /\ \A e \in Said : e.kind \notin ToolKinds
  BY DEF ChildEvent, TextKinds, ToolKinds
<1> HIDE DEF Said
<1>3. QED
  BY <1>1, <1>2

LEMMA ChildTypeStep ==
  ASSUME ChildTypeInv, Next
  PROVE  ChildTypeInv'
<1>0. /\ events \in Seq(ChildEvent) /\ Len(events) \in Nat
      /\ InRun => Len(events) >= 1
  BY DEF ChildTypeInv
<1>1. CASE StartRunner
  <2>1. UserText(message) \in ChildEvent
    BY ChildConstants, ChildEventFacts DEF ChildTypeInv
  <2>2. events' = Append(events, UserText(message))
    BY <1>1 DEF StartRunner
  <2>3. events' \in Seq(ChildEvent) /\ events' # << >>
    BY <2>1, <2>2 DEF ChildTypeInv
  <2>4. QED
    BY <1>1, <2>3 DEF ChildTypeInv, StartRunner, historyVars, sessionVars, InRun
<1>2. CASE CallTool
  <2>1. PICK t \in Tools : ModelYields(Call(t))
    BY <1>2 DEF CallTool
  <2>2. Call(t) \in ChildEvent
    BY ChildEventFacts
  <2>3. /\ events' \in Seq(ChildEvent) /\ events' # << >> /\ Len(events') = Len(events) + 1
        /\ tokens' \in Nat /\ pc' = "checking"
        /\ UNCHANGED <<message, talk, history, failed>>
    BY <2>1, <2>2, YieldTypes
  <2>4. calls' = calls + 1 /\ calls < MaxCalls /\ calls' \in 1..MaxCalls
        /\ said' = Append(said, talk[calls'])
        /\ UNCHANGED <<answered, strategy>> /\ InRun
    BY <1>2, ChildConstants DEF CallTool, ChildTypeInv, InRun
  <2>5. said' \in Seq(Nat) /\ calls' \in 0..MaxCalls
    <3>1. talk[calls'] \in Nat
      BY <2>4 DEF ChildTypeInv
    <3>2. QED
      BY <2>4, <3>1, ChildConstants DEF ChildTypeInv
  <2>6. Len(events') >= 2
    BY <1>0, <2>3, <2>4
  <2>7. QED
    BY <2>3, <2>4, <2>5, <2>6 DEF ChildTypeInv
<1>3. CASE GiveAnswer
  <2>1. ModelYields(AgentText(Answer)) /\ AgentText(Answer) \in ChildEvent
    BY <1>3, ChildConstants, ChildEventFacts DEF GiveAnswer
  <2>2. /\ events' \in Seq(ChildEvent) /\ events' # << >> /\ Len(events') = Len(events) + 1
        /\ tokens' \in Nat /\ pc' = "checking"
        /\ UNCHANGED <<message, talk, history, failed>>
    BY <2>1, YieldTypes
  <2>3. said' \in Seq(Nat) /\ InRun
    BY <1>3, ChildConstants DEF GiveAnswer, ChildTypeInv, InRun
  <2>4. Len(events') >= 2
    BY <1>0, <2>2, <2>3
  <2>5. QED
    BY <1>3, <2>2, <2>3, <2>4 DEF ChildTypeInv, GiveAnswer
<1>4. CASE ToolReturns
  <2>1. /\ pc = "running" /\ events # << >> /\ LastEvent \in ChildEvent
        /\ IsToolCall(LastEvent) /\ InRun
    BY <1>4 DEF ChildTypeInv, ToolReturns, InRun, LastEvent
  <2>2. Result(LastEvent.of) \in ChildEvent
    BY <2>1, ChildEventFacts
  <2>3. events' = Append(events, Result(LastEvent.of))
    BY <1>4 DEF ToolReturns
  <2>4. events' \in Seq(ChildEvent) /\ events' # << >> /\ Len(events') >= 2
    BY <1>0, <2>1, <2>2, <2>3
  <2>5. tokens' \in Nat
    BY <1>4, ChildConstants DEF ToolReturns, ChildTypeInv
  <2>6. QED
    BY <1>4, <2>4, <2>5 DEF ChildTypeInv, ToolReturns, historyVars, sessionVars
<1>5. CASE CheckThreshold
  BY <1>5 DEF ChildTypeInv, CheckThreshold, historyVars, sessionVars, InRun
<1>6. CASE CompactAndRestart
  <2>1. events' \in Seq(ChildEvent) /\ tokens' \in Nat
    BY <1>6, CompactedTypes DEF CompactAndRestart
  <2>2. QED
    BY <1>6, <2>1 DEF ChildTypeInv, CompactAndRestart, historyVars, InRun
<1>7. CASE CheckHistory
  BY <1>7 DEF ChildTypeInv, CheckHistory, sessionVars, InRun
<1>8. CASE RunAgent
  <2>1. events' \in Seq(ChildEvent) /\ failed' \in BOOLEAN
    BY <1>0, <1>8, SeedTypes DEF RunAgent, ChildTypeInv
  <2>2. tokens' \in Nat
    <3>1. PICK e \in ChildEvent : TRUE
      BY ChildConstants, ChildEventFacts
    <3>2. QED
      BY <1>8, <2>1, <3>1, SizeAppend DEF RunAgent
  <2>3. /\ pc' = "starting" /\ message' = Prompt /\ calls' = 0 /\ answered' = FALSE
        /\ said' = << >> /\ UNCHANGED <<strategy, talk>>
    BY <1>8 DEF RunAgent
  <2>4. calls' \in 0..MaxCalls /\ said' \in Seq(Nat)
    BY <2>3, ChildConstants
  <2>5. QED
    BY <2>1, <2>2, <2>3, <2>4 DEF ChildTypeInv, InRun
<1>9. CASE RunFails
  BY <1>9 DEF ChildTypeInv, RunFails, historyVars, InRun
<1>10. QED
  BY <1>1, <1>2, <1>3, <1>4, <1>5, <1>6, <1>7, <1>8, <1>9 DEF Next

LEMMA ChildStutter ==
  ASSUME UNCHANGED vars
  PROVE  UNCHANGED <<pc, events, tokens, message, calls, answered,
                     strategy, talk, said, history, failed>>
BY DEF vars, runVars, historyVars, sessionVars

LEMMA ChildInit ==
  ASSUME Init
  PROVE  ChildTypeInv /\ pc = "idle" /\ events = << >> /\ history = Silent
<1>1. strategy \in Strategies
  BY DEF Init, History!GetHistoryStrategy
<1>2. talk \in [1..MaxCalls -> Nat] /\ 0 \in 0..MaxCalls
  BY ChildConstants DEF Init
<1>3. << >> \in Seq(ChildEvent) /\ << >> \in Seq(Nat)
  OBVIOUS
<1>4. QED
  BY <1>1, <1>2, <1>3 DEF Init, ChildTypeInv, InRun

LEMMA ChildTypes == Spec => []ChildTypeInv
<1>1. Init => ChildTypeInv
  BY ChildInit
<1>2. ChildTypeInv /\ [Next]_vars => ChildTypeInv'
  <2>1. ASSUME ChildTypeInv, UNCHANGED vars PROVE ChildTypeInv'
    BY <2>1, ChildStutter DEF ChildTypeInv, InRun
  <2>2. QED
    BY <2>1, ChildTypeStep
<1>3. QED
  BY <1>1, <1>2, PTL DEF Spec

----------------------------------------------------------------------------
(* Pairs in the child session.                                             *)

(* Unless a run failed, and only where a run or the end of one does not    *)
(* wait for a response, none is due.                                       *)
Cuts == strategy = "truncate"

ChildPairInv ==
  ~failed =>
    /\ Linked(events, Cuts)
    /\ pc \in {"idle", "starting", "compacting", "done"} \/ (pc = "checking" /\ answered) =>
         Settled(events)

LEMMA ChildPairStep ==
  ASSUME ChildTypeInv, ChildPairInv, Next
  PROVE  ChildPairInv'
<1>0. events \in Seq(ChildEvent) /\ (InRun => events # << >>)
  BY DEF ChildTypeInv
<1>01. Cuts' = Cuts
  BY DEF Next, Cuts, StartRunner, CallTool, GiveAnswer, ToolReturns, CheckThreshold,
     CompactAndRestart, CheckHistory, RunAgent, RunFails
<1>1. CASE StartRunner
  <2>1. PICK e \in ChildEvent : e = UserText(message) /\ e.kind = "user"
    <3>1. message \in Turns
      BY ChildConstants DEF ChildTypeInv
    <3>2. UserText(message) \in ChildEvent
      BY <3>1, ChildEventFacts
    <3>3. UserText(message).kind = "user"
      BY DEF UserText
    <3>4. QED
      BY <3>2, <3>3
  <2>2. events' = Append(events, e) /\ pc = "starting" /\ pc' = "running" /\ failed' = failed
    BY <1>1, <2>1 DEF StartRunner, sessionVars
  <2>3. ~failed => Linked(events', Cuts)
    BY <1>0, <2>1, <2>2, LinkedAppend DEF ChildPairInv
  <2>4. QED
    BY <1>01, <2>2, <2>3 DEF ChildPairInv
<1>2. ASSUME NEW e \in ChildEvent, ModelYields(e), pc = "running", ~IsToolCall(LastEvent),
             e.kind # "result"
      PROVE  /\ ~failed => Linked(events', Cuts)
             /\ e.kind # "call" => Settled(events')
             /\ pc' = "checking" /\ failed' = failed
  <2>1. /\ events' = Append(events, e) /\ pc' = "checking" /\ failed' = failed
        /\ LastEvent' = e /\ events' # << >>
    BY <1>2, YieldTypes
  <2>2. events # << >> /\ Settled(events)
    BY <1>0, <1>2 DEF InRun, Settled, LastEvent, IsToolCall
  <2>3. ~failed => Linked(events', Cuts)
    BY <1>0, <1>2, <2>1, <2>2, LinkedAppend DEF ChildPairInv
  <2>4. QED
    BY <2>1, <2>3 DEF Settled, LastEvent
<1>3. CASE CallTool
  <2>1. PICK t \in Tools : ModelYields(Call(t))
    BY <1>3 DEF CallTool
  <2>2. PICK e \in ChildEvent : e = Call(t) /\ e.kind = "call"
    BY ChildEventFacts DEF Call
  <2>3. pc = "running" /\ ~IsToolCall(LastEvent) /\ answered' = answered /\ ~answered
    BY <1>3 DEF CallTool, ChildTypeInv
  <2>4. (~failed => Linked(events', Cuts)) /\ pc' = "checking" /\ failed' = failed
    BY <1>2, <2>1, <2>2, <2>3
  <2>5. QED
    BY <1>01, <2>3, <2>4 DEF ChildPairInv
<1>4. CASE GiveAnswer
  <2>1. PICK e \in ChildEvent : e = AgentText(Answer) /\ e.kind = "text"
    BY ChildConstants, ChildEventFacts DEF AgentText
  <2>2. pc = "running" /\ ~IsToolCall(LastEvent) /\ ModelYields(e)
    BY <1>4, <2>1 DEF GiveAnswer
  <2>3. /\ ~failed => Linked(events', Cuts)
        /\ Settled(events') /\ pc' = "checking" /\ failed' = failed
    BY <1>2, <2>1, <2>2
  <2>4. QED
    BY <1>01, <2>3 DEF ChildPairInv
<1>5. CASE ToolReturns
  <2>1. PICK c \in ChildEvent : c = LastEvent
    BY <1>0, <1>5 DEF ToolReturns, InRun, LastEvent
  <2>2. /\ pc = "running" /\ events # << >> /\ c.kind = "call"
        /\ c = events[Len(events)] /\ ~answered
    BY <1>0, <1>5, <2>1 DEF ToolReturns, InRun, LastEvent, IsToolCall, ChildTypeInv
  <2>3. PICK e \in ChildEvent : e = Result(c.of) /\ e.kind = "result" /\ e.of = c.of
    BY <2>1, <2>2, ChildEventFacts DEF Result, IsToolCall
  <2>4. /\ events' = Append(events, e) /\ pc' = "checking"
        /\ failed' = failed /\ answered' = answered
    BY <1>5, <2>1, <2>3 DEF ToolReturns, sessionVars
  <2>5. ~failed => Linked(events', Cuts)
    BY <1>0, <2>2, <2>3, <2>4, LinkedAnswer DEF ChildPairInv
  <2>6. QED
    BY <1>01, <2>2, <2>4, <2>5 DEF ChildPairInv
<1>6. CASE CheckThreshold
  <2>1. UNCHANGED <<events, failed>> /\ pc = "checking"
    BY <1>6 DEF CheckThreshold, sessionVars
  <2>2. pc' = "compacting" => Settled(events)
    BY <1>6 DEF CheckThreshold, CompactionDue, LastEvent, IsToolCall, Settled
  <2>3. pc' = "compacting" \/ (pc' = "done" /\ answered) \/ pc' = "running"
    BY <1>6 DEF CheckThreshold, ChildTypeInv
  <2>4. QED
    BY <1>01, <2>1, <2>2, <2>3 DEF ChildPairInv
<1>7. CASE CompactAndRestart
  <2>1. /\ pc = "compacting" /\ pc' = "starting" /\ Len(events) >= 2
        /\ failed' = (failed /\ strategy = "truncate")
        /\ events' = Compacted(events)
        /\ strategy \in {"truncate", "summarize"}
    BY <1>7, ChildConstants DEF CompactAndRestart, ChildTypeInv
  <2>2. CASE strategy = "truncate"
    <3>1. events' = Truncated(events, KeepRecent) /\ failed' = failed /\ Cuts = TRUE
      BY <2>1, <2>2 DEF Compacted, ChildTypeInv, Cuts
    <3>2. ~failed => Linked(events', TRUE) /\ Settled(events')
      BY <1>0, <2>1, <3>1, LinkedTruncated, ChildConstants DEF ChildPairInv
    <3>3. QED
      BY <1>01, <3>1, <3>2 DEF ChildPairInv
  <2>3. CASE strategy # "truncate"
    <3>1. events' = Summarized(events, SummaryTag) /\ Len(events) > 1
      BY <1>0, <2>1, <2>3 DEF Compacted
    <3>2. PICK f \in Seq(ChildEvent) : f = Summarized(events, SummaryTag)
      BY <1>0, SummarizedFacts, ChildConstants, ChildEventFacts
    <3>3. \A i \in 1..Len(f) : f[i].kind \notin ToolKinds
      <4>1. \A i \in DOMAIN f : f[i].kind \notin ToolKinds
        BY <1>0, <3>1, <3>2, SummarizedFacts, ChildConstants, ChildEventFacts
      <4>2. QED
        BY <3>2, <4>1
    <3>4. Linked(events', Cuts) /\ Settled(events')
      BY <3>1, <3>2, <3>3, PlainIsLinked
    <3>5. QED
      BY <1>01, <3>4 DEF ChildPairInv
  <2>4. QED
    BY <2>2, <2>3
<1>8. CASE CheckHistory
  BY <1>01, <1>8 DEF ChildPairInv, CheckHistory, sessionVars
<1>9. CASE RunAgent
  <2>1. pc = "idle" /\ pc' = "starting"
    BY <1>9 DEF RunAgent
  <2>2. CASE UNCHANGED <<events, failed>>
    BY <1>01, <2>1, <2>2 DEF ChildPairInv
  <2>3. CASE \E seed \in Histories \ {<< >>} : events' = seed
    <3>1. PICK seed \in Histories : events' = seed
      BY <2>3
    <3>2. Linked(events', Cuts) /\ Settled(events')
      BY <3>1, SeedTypes, PlainIsLinked
    <3>3. QED
      BY <1>01, <3>2 DEF ChildPairInv
  <2>4. QED
    BY <1>9, <2>2, <2>3 DEF RunAgent
<1>10. CASE RunFails
  BY <1>10 DEF RunFails, ChildPairInv
<1>11. QED
  BY <1>1, <1>3, <1>4, <1>5, <1>6, <1>7, <1>8, <1>9, <1>10 DEF Next

(* However many runs there are under a name and however often they are     *)
(* compacted, the history of a model call has no other broken pairs than   *)
(* those of failed runs that nothing replaced yet and, with truncation,    *)
(* one response right after the cut.                                       *)
THEOREM CompactionKeepsPairsTheorem == Spec => []CompactionKeepsPairs
<1>1. Init => ChildPairInv
  BY ChildInit DEF ChildPairInv, Linked, Settled
<1>2. ChildTypeInv /\ ChildPairInv /\ [Next]_vars => ChildPairInv'
  <2>1. ASSUME ChildPairInv, UNCHANGED vars PROVE ChildPairInv'
    BY <2>1, ChildStutter DEF ChildPairInv, Cuts
  <2>2. QED
    BY <2>1, ChildPairStep
<1>3. ChildTypeInv /\ ChildPairInv => CompactionKeepsPairs
  <2> SUFFICES ASSUME ChildTypeInv, ChildPairInv, pc = "running",
                      ~IsToolCall(LastEvent), ~failed
               PROVE  /\ \A i \in DOMAIN events : IsToolCall(events[i]) => i + 1 \in ResultsIn(events)
                      /\ \A i \in ResultsIn(events) :
                           AnsweredAt(events, i) \/ (strategy = "truncate" /\ i = CutPlace)
    BY DEF CompactionKeepsPairs, CallsModel
  <2>1. events \in Seq(ChildEvent) /\ Linked(events, Cuts) /\ DOMAIN events = 1..Len(events)
        /\ Len(events) \in Nat
    BY SMTT(40) DEF ChildTypeInv, ChildPairInv
  <2>2. ASSUME NEW i \in DOMAIN events, IsToolCall(events[i])
        PROVE  i + 1 \in ResultsIn(events)
    <3>1. i # Len(events) /\ i + 1 \in 1..Len(events)
      BY <2>1, <2>2, SMTT(40) DEF LastEvent
    <3>2. QED
      BY <2>1, <2>2, <3>1 DEF Linked, ResultsIn, IsToolCall, IsToolResult
  <2>3. ASSUME NEW i \in ResultsIn(events)
        PROVE  AnsweredAt(events, i) \/ (strategy = "truncate" /\ i = CutPlace)
    <3>1. i \in 1..Len(events) /\ events[i].kind = "result"
      BY <2>1 DEF ResultsIn, IsToolResult
    <3>2. QED
      BY <2>1, <3>1 DEF Linked, AnsweredAt, IsToolCall, CutIn, CutPlace, Cuts
  <2>4. QED
    BY <2>2, <2>3
<1>4. QED
  BY <1>1, <1>2, <1>3, ChildTypes, PTL DEF Spec

----------------------------------------------------------------------------
(* What is in the context of the model.                                    *)

(* The count lacks at most the message that started the runner, and where  *)
(* the model is called again it is below the threshold.                    *)
ChildCountInv ==
  /\ InRun => Size(events) <= tokens + Weight["user"]
  /\ pc = "starting" => Size(events) <= tokens
  /\ pc = "running" => tokens < Threshold \/ IsToolCall(LastEvent) \/ LastEvent.kind = "user"

LEMMA ChildCountStep ==
  ASSUME ChildTypeInv, ChildTypeInv', ChildCountInv, Next
  PROVE  ChildCountInv'
<1>0. /\ events \in Seq(ChildEvent) /\ events' \in Seq(ChildEvent)
      /\ tokens \in Nat /\ Weight["user"] \in Nat
      /\ Threshold \in Nat /\ (InRun => Size(events) <= tokens + Weight["user"])
  BY ChildConstants DEF ChildTypeInv, ChildCountInv
<1>1. CASE StartRunner
  <2>1. PICK e \in ChildEvent : e = UserText(message) /\ e.kind = "user"
    <3>1. message \in Turns
      BY ChildConstants DEF ChildTypeInv
    <3>2. UserText(message) \in ChildEvent
      BY <3>1, ChildEventFacts
    <3>3. UserText(message).kind = "user"
      BY DEF UserText
    <3>4. QED
      BY <3>2, <3>3
  <2>2. events' = Append(events, e) /\ events'[Len(events')] = e
    BY <1>0, <1>1, <2>1 DEF StartRunner
  <2>3. pc' = "running" /\ tokens' = tokens /\ Size(events) <= tokens
    BY <1>1 DEF StartRunner, ChildCountInv
  <2>4. /\ Size(events') = Size(events) + Weight["user"]
        /\ Size(events) \in Nat
    BY <1>0, <2>1, <2>2, SizeAppend
  <2>5. Size(events') <= tokens' + Weight["user"]
    BY <1>0, <2>3, <2>4
  <2>6. QED
    BY <2>1, <2>2, <2>3, <2>5 DEF ChildCountInv, LastEvent
<1>2. ASSUME NEW e \in ChildEvent, ModelYields(e), pc = "running"
      PROVE  ChildCountInv'
  <2> DEFINE z == Size(events)
             y == Size(events')
             w == Weight[e.kind]
             k == tokens'
             u == Weight["user"]
  <2>1. /\ z \in Nat /\ w \in Nat /\ y = z + w
        /\ k = tokens + y \/ k = tokens + w
        /\ pc' = "checking"
    BY <1>2, YieldTypes
  <2>2. z <= tokens + u /\ u \in Nat /\ tokens \in Nat
    BY <1>0, <1>2 DEF InRun
  <2> HIDE DEF z, y, w, k, u
  <2>3. y <= k + u
    BY <2>1, <2>2
  <2>4. QED
    BY <2>1, <2>3 DEF ChildCountInv, y, k, u
<1>3. CASE CallTool
  <2>1. PICK t \in Tools : ModelYields(Call(t))
    BY <1>3 DEF CallTool
  <2>2. Call(t) \in ChildEvent
    BY ChildEventFacts
  <2>3. QED
    BY <1>2, <1>3, <2>1, <2>2 DEF CallTool
<1>4. CASE GiveAnswer
  <2>1. AgentText(Answer) \in ChildEvent /\ ModelYields(AgentText(Answer))
    BY <1>4, ChildConstants, ChildEventFacts DEF GiveAnswer
  <2>2. QED
    BY <1>2, <1>4, <2>1 DEF GiveAnswer
<1>5. CASE ToolReturns
  <2> DEFINE e == Result(LastEvent.of)
  <2>1. /\ pc = "running" /\ LastEvent \in ChildEvent /\ IsToolCall(LastEvent)
    BY <1>5 DEF ChildTypeInv, ToolReturns, InRun, LastEvent
  <2>2. e \in ChildEvent /\ e.kind = "result"
    BY <2>1, ChildEventFacts DEF Result
  <2>3. /\ events' = Append(events, e) /\ pc' = "checking"
        /\ tokens' = tokens + Weight["result"]
    BY <1>5 DEF ToolReturns
  <2>4. /\ Size(events') = Size(events) + Weight["result"]
        /\ Size(events) \in Nat /\ Weight["result"] \in Nat
    <3> HIDE DEF e
    <3> QED
      BY <1>0, <2>2, <2>3, SizeAppend, ChildConstants
  <2>5. Size(events') <= tokens' + Weight["user"]
    BY <1>0, <2>1, <2>3, <2>4 DEF InRun
  <2>6. QED
    BY <2>3, <2>5 DEF ChildCountInv
<1>6. CASE CheckThreshold
  <2>1. UNCHANGED <<events, tokens>> /\ LastEvent' = LastEvent
        /\ pc = "checking" /\ pc' # "starting"
    BY <1>6 DEF CheckThreshold, LastEvent
  <2>2. pc' = "running" => tokens < Threshold \/ IsToolCall(LastEvent)
    BY <1>0, <1>6 DEF CheckThreshold, CompactionDue
  <2>3. QED
    BY <1>0, <2>1, <2>2 DEF ChildCountInv, InRun
<1>7. ASSUME tokens' = Size(events'), pc' = "starting"
      PROVE  ChildCountInv'
  <2>1. Size(events') \in Nat
    <3>1. PICK e \in ChildEvent : TRUE
      BY ChildConstants, ChildEventFacts
    <3>2. QED
      BY <1>0, <3>1, SizeAppend
  <2>2. QED
    BY <1>7, <2>1 DEF ChildCountInv, InRun
<1>8. CASE CheckHistory
  BY <1>8 DEF ChildCountInv, CheckHistory, InRun
<1>9. CASE RunFails
  BY <1>9 DEF ChildCountInv, RunFails, InRun
<1>10. QED
  BY <1>1, <1>3, <1>4, <1>5, <1>6, <1>7, <1>8, <1>9 DEF Next, RunAgent, CompactAndRestart

(* After the first model call of a runner none goes out with more than the *)
(* threshold and the message that started the runner, which is not counted,*)
(* whatever the session held before, the events weigh and the usage says.  *)
THEOREM ContextFitsTheorem == Spec => []ContextFits
<1>1. Init => ChildCountInv
  BY ChildInit DEF ChildCountInv, InRun
<1>2. ChildTypeInv /\ ChildTypeInv' /\ ChildCountInv /\ [Next]_vars => ChildCountInv'
  <2>1. ASSUME ChildCountInv, UNCHANGED vars PROVE ChildCountInv'
    BY <2>1, ChildStutter DEF ChildCountInv, LastEvent, InRun
  <2>2. QED
    BY <2>1, ChildCountStep
<1>3. ChildTypeInv /\ ChildCountInv => ContextFits
  <2> SUFFICES ASSUME ChildTypeInv, ChildCountInv, pc = "running",
                      ~IsToolCall(LastEvent), LastEvent.kind # "user"
               PROVE  Size(events) < Threshold + Weight["user"]
    BY DEF ContextFits, CallsModel
  <2>1. /\ Size(events) <= tokens + Weight["user"] /\ tokens < Threshold
        /\ Size(events) \in Nat
    <3>1. Size(events) \in Nat
      <4> PICK e \in ChildEvent : TRUE
        BY ChildConstants, ChildEventFacts
      <4>1. QED
        BY SizeAppend DEF ChildTypeInv
    <3>2. QED
      BY <3>1 DEF ChildCountInv, InRun
  <2>2. tokens \in Nat /\ Threshold \in Nat /\ Weight["user"] \in Nat
    BY ChildConstants DEF ChildTypeInv
  <2>3. QED
    BY <2>1, <2>2
<1>4. QED
  BY <1>1, <1>2, <1>3, ChildTypes, PTL DEF Spec

----------------------------------------------------------------------------
(* What the compaction of the history keeps.                               *)

Message == [role : {"assistant", "system"}, size : Nat]

CountBody(s, g) ==
  [n \in 0..Len(s) |-> IF n = 0 THEN 0 ELSE g[n - 1] + s[n].size]

LEMMA CountRecursion ==
  ASSUME NEW s \in Seq(Message)
  PROVE  \E g : g = CountBody(s, g) /\ History!CountTokens(s) = g[Len(s)]
<1> DEFINE w == [n \in 1..Len(s) |-> s[n].size]
<1>1. Len(s) \in Nat /\ \A n \in 1..Len(s) : s[n] \in Message /\ s[n].size \in Nat
  <2>1. Len(s) \in Nat /\ \A n \in 1..Len(s) : s[n] \in Message
    OBVIOUS
  <2>2. \A e \in Message : e.size \in Nat
    BY DEF Message
  <2>3. QED
    BY <2>1, <2>2
<1>2. w \in [1..Len(s) -> Nat]
  BY <1>1
<1>3. PICK g \in [0..Len(s) -> Nat] : g = SumBody(Len(s), w, g)
  <2> HIDE DEF w
  <2> QED
    BY <1>1, <1>2, SumExists
<1>4. SumBody(Len(s), w, g) = CountBody(s, g)
  <2>1. \A n \in 0..Len(s) : n # 0 => n \in 1..Len(s)
    BY <1>1
  <2>2. \A n \in 0..Len(s) :
          (IF n = 0 THEN 0 ELSE g[n - 1] + w[n]) = (IF n = 0 THEN 0 ELSE g[n - 1] + s[n].size)
    BY <2>1
  <2>3. QED
    BY <2>2 DEF SumBody, CountBody
<1> DEFINE f == CHOOSE h : h = CountBody(s, h)
<1>5. f = CountBody(s, f)
  <2>1. g = CountBody(s, g)
    BY <1>3, <1>4
  <2>2. QED
    BY <2>1
<1>6. History!CountTokens(s) = f[Len(s)]
  BY DEF History!CountTokens, CountBody
<1>7. QED
  BY <1>5, <1>6

LEMMA CountAppend ==
  /\ History!CountTokens(<< >>) = 0
  /\ \A s \in Seq(Message), e \in Message :
       /\ History!CountTokens(s) \in Nat
       /\ History!CountTokens(Append(s, e)) = History!CountTokens(s) + e.size
<1> DEFINE C(s) == History!CountTokens(s)
<1>1. C(<< >>) = 0
  <2>1. << >> \in Seq(Message) /\ Len(<< >>) = 0
    OBVIOUS
  <2>2. PICK g : g = CountBody(<< >>, g) /\ C(<< >>) = g[Len(<< >>)]
    BY <2>1, CountRecursion
  <2>3. g[0] = 0
    BY <2>1, <2>2 DEF CountBody
  <2>4. QED
    BY <2>1, <2>2, <2>3
<1>2. ASSUME NEW s \in Seq(Message), NEW e \in Message
      PROVE  C(s) \in Nat /\ C(Append(s, e)) = C(s) + e.size
  <2> DEFINE t == Append(s, e)
             N == Len(s)
             w == [n \in 1..(N + 1) |-> t[n].size]
             v == [n \in 1..N |-> s[n].size]
  <2>1. /\ N \in Nat /\ t \in Seq(Message) /\ Len(t) = N + 1 /\ t[N + 1] = e
        /\ \A n \in 1..N : t[n] = s[n]
        /\ \A n \in 1..(N + 1) : t[n] \in Message
    OBVIOUS
  <2>2. PICK h : h = CountBody(s, h) /\ C(s) = h[N]
    BY CountRecursion
  <2>3. PICK g : g = CountBody(t, g) /\ C(t) = g[N + 1]
    <3> HIDE DEF t
    <3>1. \E g : g = CountBody(t, g) /\ C(t) = g[Len(t)]
      BY <2>1, CountRecursion
    <3>2. QED
      BY <2>1, <3>1
  <2>4. h = SumBody(N, v, h)
    <3>1. \A n \in 0..N : n # 0 => n \in 1..N
      BY <2>1
    <3>2. \A n \in 0..N :
            (IF n = 0 THEN 0 ELSE h[n - 1] + v[n]) = (IF n = 0 THEN 0 ELSE h[n - 1] + s[n].size)
      BY <3>1
    <3>3. SumBody(N, v, h) = CountBody(s, h)
      BY <3>2 DEF SumBody, CountBody
    <3>4. QED
      BY <2>2, <3>3
  <2>5. g = SumBody(N + 1, w, g)
    <3> HIDE DEF t, N
    <3>1. \A n \in 0..(N + 1) : n # 0 => n \in 1..(N + 1)
      BY <2>1
    <3>2. \A n \in 0..(N + 1) :
            (IF n = 0 THEN 0 ELSE g[n - 1] + w[n]) = (IF n = 0 THEN 0 ELSE g[n - 1] + t[n].size)
      BY <3>1
    <3>3. SumBody(N + 1, w, g) = CountBody(t, g)
      BY <2>1, <3>2 DEF SumBody, CountBody
    <3>4. QED
      BY <2>3, <3>3
  <2> DEFINE M == N + 1
  <2>6. /\ w \in [1..M -> Nat] /\ w[N + 1] = e.size /\ \A n \in 1..N : v[n] = w[n]
        /\ M \in Nat /\ N \in 0..M /\ N < M /\ N \in Nat /\ g = SumBody(M, w, g)
    <3> HIDE DEF t, N
    <3>1. w \in [1..(N + 1) -> Nat]
      BY <2>1 DEF Message
    <3>2. N + 1 \in 1..(N + 1) /\ \A n \in 1..N : n \in 1..(N + 1)
      BY <2>1
    <3>3. QED
      BY <2>1, <2>5, <3>1, <3>2 DEF N
  <2>7. /\ h[N] = g[N] /\ g[N] \in Nat
        /\ N < M => g[N + 1] = g[N] + w[N + 1]
    <3> HIDE DEF t, N, w, v, M
    <3>1. M \in Nat /\ w \in [1..M -> Nat] /\ N \in 0..M /\ g = SumBody(M, w, g)
          /\ h = SumBody(N, v, h) /\ \A n \in 1..N : v[n] = w[n]
      BY <2>4, <2>6
    <3>2. QED
      BY <3>1, SumAgrees, SMTT(60)
  <2>8. QED
    <3> HIDE DEF w, v, N, M
    <3> QED
      BY <2>2, <2>3, <2>6, <2>7 DEF N
<1>3. QED
  BY <1>1, <1>2

(* From the other end.                                                     *)
LEMMA CountCons ==
  ASSUME NEW x \in Message, NEW s \in Seq(Message)
  PROVE  History!CountTokens(<<x>> \o s) = x.size + History!CountTokens(s)
<1> DEFINE C(u) == History!CountTokens(u)
           S == {u \in Seq(Message) : C(<<x>> \o u) = x.size + C(u)}
<1>0. x.size \in Nat
  BY DEF Message
<1>1. << >> \in S
  <2>1. <<x>> \o << >> = Append(<< >>, x) /\ << >> \in Seq(Message)
    OBVIOUS
  <2>2. C(Append(<< >>, x)) = C(<< >>) + x.size /\ C(<< >>) = 0
    BY <2>1, CountAppend
  <2>3. QED
    BY <1>0, <2>1, <2>2
<1>2. ASSUME NEW u \in Seq(Message), NEW e \in Message, u \in S PROVE Append(u, e) \in S
  <2>1. <<x>> \o Append(u, e) = Append(<<x>> \o u, e) /\ <<x>> \o u \in Seq(Message)
        /\ Append(u, e) \in Seq(Message)
    OBVIOUS
  <2>2. /\ C(Append(<<x>> \o u, e)) = C(<<x>> \o u) + e.size
        /\ C(Append(u, e)) = C(u) + e.size /\ C(u) \in Nat
    BY <2>1, CountAppend
  <2>3. C(<<x>> \o u) = x.size + C(u) /\ e.size \in Nat
    BY <1>2 DEF Message
  <2>4. C(<<x>> \o Append(u, e)) = x.size + C(Append(u, e))
    <3> DEFINE a == C(<<x>> \o u)
               b == C(u)
    <3>1. a = x.size + b /\ b \in Nat /\ C(Append(<<x>> \o u, e)) = a + e.size
          /\ C(Append(u, e)) = b + e.size
      BY <2>2, <2>3
    <3> HIDE DEF a, b
    <3>2. a + e.size = x.size + (b + e.size)
      BY <1>0, <2>3, <3>1
    <3>3. QED
      BY <2>1, <3>1, <3>2
  <2>5. QED
    BY <2>1, <2>4
<1>3. s \in S
  <2> HIDE DEF S
  <2> QED
    BY <1>1, <1>2, SequenceInduction
<1>4. QED
  BY <1>3

LEMMA CountIsNat == \A s \in Seq(Message) : History!CountTokens(s) \in Nat
<1>1. [role |-> "system", size |-> 0] \in Message
  BY DEF Message
<1>2. QED
  BY <1>1, CountAppend

(* An ending that is one message longer.                                   *)
LEMMA EndingGrows ==
  ASSUME NEW m \in Seq(Message), NEW n \in Nat, n < Len(m)
  PROVE  /\ History!CountTokens(History!Ending(m, n)) \in Nat
         /\ History!CountTokens(History!Ending(m, n + 1)) \in Nat
         /\ History!CountTokens(History!Ending(m, n))
              <= History!CountTokens(History!Ending(m, n + 1))
<1> DEFINE L == Len(m)
           e == SubSeq(m, L - n + 1, L)
           x == m[L - n]
<1>1. L \in Nat /\ L - n \in 1..L /\ x \in Message /\ e \in Seq(Message)
  OBVIOUS
<1>2. SubSeq(m, L - (n + 1) + 1, L) = <<x>> \o e
  <2>1. L - (n + 1) + 1 = L - n
    BY <1>1
  <2>2. SubSeq(m, L - n, L) = <<x>> \o SubSeq(m, L - n + 1, L)
    OBVIOUS
  <2>3. QED
    BY <2>1, <2>2
<1>3. /\ History!Ending(m, n) = e
      /\ History!Ending(m, n + 1) = <<x>> \o e
  BY <1>2 DEF History!Ending
<1> HIDE DEF L, e, x
<1> DEFINE a == History!CountTokens(e)
           b == History!CountTokens(<<x>> \o e)
<1>4. /\ History!CountTokens(<<x>> \o e) = x.size + History!CountTokens(e)
      /\ History!CountTokens(e) \in Nat /\ x.size \in Nat
  BY <1>1, CountCons, CountIsNat DEF Message
<1>5. a \in Nat /\ b \in Nat /\ a <= b
  <2>1. a \in Nat /\ x.size \in Nat /\ b = x.size + a
    BY <1>4
  <2> HIDE DEF a, b
  <2>2. QED
    BY <2>1
<1>6. QED
  BY <1>3, <1>5

(* The endings that fit are those up to the longest.                       *)
LEMMA LongestEnding ==
  ASSUME NEW m \in Seq(Message), Len(m) > 4
  PROVE  \E n \in 0..(Len(m) - 1) :
           /\ History!Truncate(m) = <<m[1]>> \o History!Ending(m, n)
           /\ n > 0 => History!Fits(m, n)
           /\ n < Len(m) - 1 => ~History!Fits(m, n + 1)
<1> DEFINE N == Len(m) - 1
           F == {n \in 1..N : History!Fits(m, n)}
<1>1. N \in Nat /\ N >= 4 /\ m[1] \in Message /\ m[1].size \in Nat
  <2>1. m[1] \in Message /\ Len(m) \in Nat
    OBVIOUS
  <2>2. QED
    BY <2>1 DEF Message
<1>2. History!Target \in Nat
  BY ChildConstants DEF History!Target
<1>3. ASSUME NEW n \in 1..N, n + 1 \in F PROVE n \in F
  <2>1. n \in Nat /\ n < Len(m) /\ History!Fits(m, n + 1)
    BY <1>1, <1>3
  <2>2. History!Fits(m, n)
    BY <1>1, <1>2, <2>1, EndingGrows, SMTT(40) DEF History!Fits
  <2>3. QED
    BY <2>2
<1>4. \E k \in 0..N : F = 1..k
  <2>1. CASE F = {}
    <3>1. 0 \in 0..N /\ 1..0 = {}
      BY <1>1
    <3>2. QED
      BY <2>1, <3>1
  <2>2. CASE F # {}
    <3>1. F \in SUBSET (1..N)
      OBVIOUS
    <3> HIDE DEF F
    <3>2. PICK k \in F : \A j \in F : j <= k
      BY <1>1, <2>2, <3>1, LastPlace
    <3> DEFINE S == {d \in 0..(k - 1) : k - d \in F}
    <3>3. k \in 1..N /\ k - 1 \in Nat
      BY <1>1, <3>1, <3>2
    <3>4. 0 \in S
      BY <3>2, <3>3
    <3>5. ASSUME NEW d \in 0..(k - 1), d \in S, d < k - 1 PROVE d + 1 \in S
      <4>1. k - (d + 1) \in 1..N /\ (k - (d + 1)) + 1 = k - d /\ d + 1 \in 0..(k - 1)
        BY <1>1, <3>3, <3>5
      <4>2. k - (d + 1) \in F
        BY <1>3, <3>5, <4>1
      <4>3. QED
        BY <4>1, <4>2
    <3>6. \A d \in 0..(k - 1) : d \in S
      <4> HIDE DEF S
      <4> DEFINE M == k - 1
      <4>1. M \in Nat
        BY <3>3
      <4>2. \A d \in 0..M : d \in S /\ d < M => d + 1 \in S
        BY <3>5
      <4> HIDE DEF M
      <4>3. \A d \in 0..M : d \in S
        BY <3>4, <4>1, <4>2, BoundedInduction
      <4>4. QED
        BY <4>3 DEF M
    <3>7. ASSUME NEW j \in 1..k PROVE j \in F
      <4>1. k - j \in 0..(k - 1) /\ k - (k - j) = j
        BY <3>3
      <4>2. QED
        BY <3>6, <4>1
    <3>8. F = 1..k
      <4>1. \A j \in F : j \in 1..N /\ j <= k
        BY <3>1, <3>2
      <4>2. \A j \in F : j \in 1..k
        BY <1>1, <3>3, <4>1
      <4>3. QED
        BY <3>7, <4>2
    <3>9. QED
      BY <3>3, <3>8
  <2>3. QED
    BY <2>1, <2>2
<1>5. PICK k \in 0..N : F = 1..k
  BY <1>4
<1>6. Cardinality(F) = k
  <2>1. k \in Nat /\ k \in Int
    BY <1>1
  <2> HIDE DEF F
  <2>2. Cardinality(1..k) = k
    BY <2>1, FS_Interval
  <2>3. QED
    BY <1>5, <2>2
<1>7. History!Truncate(m) = <<m[1]>> \o History!Ending(m, Cardinality(F))
  <2>1. ~(Len(m) <= History!MINIMUM_RECENT_MESSAGES)
    BY <1>1 DEF History!MINIMUM_RECENT_MESSAGES
  <2>2. History!Truncate(m) =
          <<m[1]>> \o History!Ending(m, History!Cardinality(F))
    BY <2>1 DEF History!Truncate
  <2>3. History!Cardinality(F) = Cardinality(F)
    <3> HIDE DEF F
    <3> QED
      BY DEF History!Cardinality, Cardinality
  <2>4. QED
    BY <2>2, <2>3
<1>8. k > 0 => k \in F
  BY <1>1, <1>5
<1>9. k < N => k + 1 \in 1..N /\ k + 1 \notin F
  BY <1>1, <1>5
<1>10. QED
  BY <1>1, <1>6, <1>7, <1>8, <1>9

LEMMA MessagesType ==
  ASSUME NEW s \in Seq(Nat)
  PROVE  History!ExtractMessages(s) \in Seq(Message)
<1> DEFINE Body(g) ==
             [n \in 0..Len(s) |->
                IF n = 0 THEN << >>
                ELSE IF s[n] > 0
                       THEN Append(g[n - 1], History!Message("assistant", s[n]))
                ELSE g[n - 1]]
           F == [p \in Seq(Message) \X (1..Len(s)) |->
                   IF s[p[2]] > 0
                     THEN Append(p[1], History!Message("assistant", s[p[2]])) ELSE p[1]]
<1>1. Len(s) \in Nat /\ << >> \in Seq(Message)
  OBVIOUS
<1>2. F \in [Seq(Message) \X (1..Len(s)) -> Seq(Message)]
  <2>1. ASSUME NEW p \in Seq(Message) \X (1..Len(s))
        PROVE  (IF s[p[2]] > 0
                  THEN Append(p[1], History!Message("assistant", s[p[2]])) ELSE p[1])
                 \in Seq(Message)
    <3>1. p[1] \in Seq(Message) /\ p[2] \in 1..Len(s) /\ s[p[2]] \in Nat
      OBVIOUS
    <3>2. History!Message("assistant", s[p[2]]) \in Message
      BY <3>1 DEF History!Message, Message
    <3>3. QED
      BY <3>1, <3>2
  <2>2. QED
    BY <2>1
<1>3. PICK g \in Iterates(Len(s), Seq(Message), << >>, F) : TRUE
  <2> HIDE DEF F
  <2> QED
    BY <1>1, <1>2, Iteration
<1>4. ASSUME NEW n \in 0..Len(s)
      PROVE  g[n] = IF n = 0 THEN << >>
                    ELSE IF s[n] > 0
                           THEN Append(g[n - 1], History!Message("assistant", s[n]))
                    ELSE g[n - 1]
  <2>1. CASE n = 0
    BY <1>3, <2>1 DEF Iterates
  <2>2. CASE n # 0
    <3>1. n \in 1..Len(s) /\ n - 1 \in 0..Len(s)
      BY <1>1, <2>2
    <3>2. g[n] = F[<<g[n - 1], n>>] /\ g[n - 1] \in Seq(Message)
      BY <1>3, <3>1 DEF Iterates
    <3>3. <<g[n - 1], n>> \in Seq(Message) \X (1..Len(s))
      BY <3>1, <3>2
    <3>4. QED
      BY <2>2, <3>2, <3>3
  <2>3. QED
    BY <2>1, <2>2
<1>5. g = Body(g)
  <2>1. g = [n \in 0..Len(s) |-> g[n]]
    BY <1>3 DEF Iterates
  <2>2. QED
    BY <1>4, <2>1
<1> DEFINE f == CHOOSE h : h = Body(h)
<1>6. f = Body(f)
  <2> HIDE DEF Body
  <2> QED
    BY <1>5
<1>7. History!ExtractMessages(s) = f[Len(s)]
  BY DEF History!ExtractMessages
<1> HIDE DEF f
<1>8. \A n \in 0..Len(s) : f[n] \in Seq(Message)
  <2>1. f[0] \in Seq(Message)
    BY <1>1, <1>6
  <2>2. ASSUME NEW n \in 1..Len(s), f[n - 1] \in Seq(Message) PROVE f[n] \in Seq(Message)
    <3>1. n \in 0..Len(s) /\ n # 0 /\ s[n] \in Nat
      BY <1>1
    <3>2. f[n] = IF s[n] > 0
                   THEN Append(f[n - 1], History!Message("assistant", s[n]))
                   ELSE f[n - 1]
      BY <1>6, <3>1
    <3>3. History!Message("assistant", s[n]) \in Message
      BY <3>1 DEF History!Message, Message
    <3>4. QED
      BY <2>2, <3>2, <3>3
  <2> HIDE DEF Body
  <2>3. \A n \in 1..Len(s) : f[n - 1] \in Seq(Message) => f[n] \in Seq(Message)
    BY <2>2
  <2>4. QED
    BY <1>1, <2>1, <2>3, Along
<1>9. QED
  BY <1>1, <1>7, <1>8

(* Only the last step of the child announces anything.                     *)
ChildHistoryInv ==
  /\ pc # "idle" => history = Silent
  /\ KeptIsLongestEnding

(* What truncation announces to keep of the texts of a run is the first    *)
(* and the longest ending that fits half the window with it, for every run *)
(* and every window.                                                       *)
THEOREM LongestEndingIsKept == Spec => []KeptIsLongestEnding
<1>0. ~Silent.announced
  BY DEF Silent
<1>1. history = Silent => KeptIsLongestEnding
  BY <1>0 DEF KeptIsLongestEnding
<1>2. Init => ChildHistoryInv
  BY <1>1, ChildInit DEF ChildHistoryInv
<1>3. ASSUME ChildTypeInv, ChildHistoryInv, CheckHistory
      PROVE  ChildHistoryInv'
  <2> DEFINE m == History!ExtractMessages(said)
  <2>1. pc' = "idle" /\ UNCHANGED <<said, strategy>>
    BY <1>3 DEF CheckHistory
  <2>2. CASE history' = Silent
    BY <1>0, <2>1, <2>2 DEF ChildHistoryInv, KeptIsLongestEnding
  <2>3. CASE /\ strategy = "truncate" /\ Len(m) > 4
             /\ history' # Silent
    <3>1. m \in Seq(Message)
      <4>1. said \in Seq(Nat)
        BY <1>3 DEF ChildTypeInv
      <4>2. QED
        BY <4>1, MessagesType
    <3>2. PICK kept \in History!Compactions(m, strategy) :
                 history' = [announced |-> TRUE, kept |-> kept,
                                  figures |-> History!Announcement(m, kept)]
      BY <1>3, <2>3 DEF CheckHistory
    <3>3. kept = History!Truncate(m)
      BY <2>3, <3>2 DEF History!Compactions
    <3> HIDE DEF m
    <3>4. history'.kept = History!Truncate(m)
      BY <3>2, <3>3
    <3>5. \E n \in 0..(Len(m) - 1) :
           /\ History!Truncate(m) = <<m[1]>> \o History!Ending(m, n)
           /\ n > 0 => History!Fits(m, n)
           /\ n < Len(m) - 1 => ~History!Fits(m, n + 1)
      BY <2>3, <3>1, LongestEnding
    <3>6. \E n \in 0..(Len(m) - 1) :
           /\ history'.kept = <<m[1]>> \o SubSeq(m, Len(m) - n + 1, Len(m))
           /\ n > 0 => m[1].size + History!CountTokens(SubSeq(m, Len(m) - n + 1, Len(m)))
                         <= Window \div 2
           /\ n < Len(m) - 1 =>
                ~(m[1].size + History!CountTokens(SubSeq(m, Len(m) - (n + 1) + 1, Len(m)))
                    <= Window \div 2)
      BY <3>4, <3>5
      DEF History!Ending, History!Fits, History!Target
    <3>7. KeptIsLongestEnding'
      BY <2>1, <3>6 DEF KeptIsLongestEnding, m
    <3>8. QED
      BY <2>1, <3>7 DEF ChildHistoryInv
  <2>4. CASE ~(strategy = "truncate" /\ Len(m) > 4)
    BY <2>1, <2>4 DEF ChildHistoryInv, KeptIsLongestEnding
  <2>5. QED
    BY <2>2, <2>3, <2>4
<1>4. ASSUME ChildHistoryInv, Next, ~CheckHistory
      PROVE  ChildHistoryInv'
  <2>1. history' = Silent \/ (history' = history /\ pc # "idle")
    BY <1>4 DEF Next, StartRunner, CallTool, GiveAnswer,
                ModelYields, ToolReturns, CheckThreshold,
                CompactAndRestart, RunAgent, RunFails, historyVars
  <2>2. history' = Silent
    BY <1>4, <2>1 DEF ChildHistoryInv
  <2>3. QED
    BY <1>0, <2>2 DEF ChildHistoryInv, KeptIsLongestEnding
<1>5. ASSUME ChildHistoryInv, UNCHANGED vars PROVE ChildHistoryInv'
  <2>1. UNCHANGED <<pc, history, said, strategy>>
    BY <1>5, ChildStutter
  <2>2. QED
    BY <1>5, <2>1 DEF ChildHistoryInv, KeptIsLongestEnding
<1>6. ChildTypeInv /\ ChildHistoryInv /\ [Next]_vars => ChildHistoryInv'
  BY <1>3, <1>4, <1>5
<1>7. ChildHistoryInv => KeptIsLongestEnding
  BY DEF ChildHistoryInv
<1>8. QED
  BY <1>2, <1>6, <1>7, ChildTypes, PTL DEF Spec
=============================================================================
