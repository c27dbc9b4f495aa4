----------------------------- MODULE BatchProofs -----------------------------
(***************************************************************************)
(* For every mode, plan, reviewer and bound: a headless mission neither loses *)
(* nor reorders what people say to it, completes a reviewed task only on a    *)
(* verdict or a person's word, and hears an update of Telegram at most once.  *)
(*                                                                         *)
(* The argument is one inductive invariant in five parts, each about the      *)
(* variables of one actor: what is set aside and what is on the bus           *)
(* (Queues), where the thread is and what it does next (Place), the files     *)
(* (Files), the verdict the thread acts on (Audited), and the listener with   *)
(* the server behind it (Listening).                                         *)
(***************************************************************************)
EXTENDS Batch, SequenceTheorems, FiniteSetTheorems, TLAPS

Bus == [deferred : Seq(Command), queue : Seq(Command)]

\* A sequence of commands in the order in which they were published.
Ascending(s) == \A i, j \in 1 .. Len(s) : i < j => s[i].id < s[j].id
Ids(s) == {s[i].id : i \in 1 .. Len(s)}

-----------------------------------------------------------------------------
(* The inductive invariant. *)

\* A pause is within check_signals, and keeps a queue of its own.
Queues ==
    /\ bus \in Bus /\ held \in Seq(Command) /\ paused \in Seq(Command)
    /\ sent \in 0 .. MaxCommands /\ gone \subseteq 1 .. sent
    /\ aborted \in BOOLEAN
    /\ paused # <<>> => pc = "paused"
    /\ held # <<>> => pc \in {"signals", "paused", "approval"}
    /\ Ascending(Kept) /\ Ids(Kept) = (1 .. sent) \ gone

\* Where the thread is, or goes on after its wait.
There == IF pc \in {"signals", "paused"} THEN back ELSE pc

\* The initial pipeline never ends with the conversation, and a reviewed task's
\* pipeline ends with the review.
Place ==
    /\ pc \in TakesCommands \cup {"start", "init", "structure", "grill", "load", "loop",
                         "phase", "verdict", "rework", "accepted", "report", "over"}
    /\ back \in {"start", "init", "load", "loop", "phase"}
    /\ pc \in {"signals", "paused"} => back # "start"
    /\ phases \in Seq(Phase) /\ task \in Task \cup {0} /\ turn \in 0 .. MaxTurns
    /\ block \in {"none", "phase", "structure", "user_abort", "user_rejected"}
    /\ There \in {"init", "approval", "structure", "grill", "reply"} =>
           phases # <<>> /\ phases[Len(phases)] # "grill"
    /\ pc \in {"grill", "reply"} => Head(phases) = "grill"
    /\ There = "phase" =>
           phases # <<>> /\ (Reviewed(task) => phases[Len(phases)] = "review")

Files ==
    /\ mode \in Modes /\ gate \in {"auto", "manual"}
    /\ map \in Nat /\ shown \in Nat /\ shown <= map /\ map <= MaxMap
    /\ plan \in Plans \cup {NoPlan}
    /\ status \in [Task -> {"pending", "completed", "failed", "blocked"}]
    /\ audit \in Reviews \cup {NoAudit}

\* The verdict the thread acts on has passed the gate.
Audited ==
    /\ pc = "verdict" => ~EvidenceError(audit)
    /\ pc = "rework" => audit.verdict = "MINOR_CHANGES"

\* What is to come from the server was posted to this process; what is in hand
\* is the last that was taken, and is not delivered yet.
Listening ==
    /\ updates \in Seq([what : Posted, life : Nat])
    /\ offset \in 1 .. Len(updates) + 1 /\ hand \in 0 .. Len(updates)
    /\ delivered \subseteq Updates
    /\ Cardinality(delivered) <= sent /\ sent \in Nat
    /\ life \in 1 .. MaxEvents + 1
    /\ pc = "start" => hand = 0
    /\ Alive =>
        /\ \A u \in delivered : u < offset
        /\ hand # 0 => /\ hand = offset - 1 /\ hand \notin delivered
                       /\ updates[hand].life = life
        /\ \A u \in offset .. Len(updates) : updates[u].life = life

BatchInv == Queues /\ Place /\ Files /\ Audited /\ Listening

-----------------------------------------------------------------------------
(* Sequences of commands. *)

LEMMA HeadAndTail ==
  ASSUME NEW S, NEW s \in Seq(S), s # <<>>
  PROVE  Head(s) \in S /\ Tail(s) \in Seq(S) /\ s = <<Head(s)>> \o Tail(s)
<1>1. /\ Len(s) \in Nat \ {0} /\ Head(s) = s[1] /\ Head(s) \in S
      /\ Tail(s) \in Seq(S) /\ Len(Tail(s)) = Len(s) - 1
      /\ \A i \in 1 .. Len(Tail(s)) : Tail(s)[i] = s[i + 1]
  BY HeadTailProperties, EmptySeq
<1> DEFINE t == <<Head(s)>> \o Tail(s)
<1>2. <<Head(s)>> \in Seq(S) /\ Len(<<Head(s)>>) = 1 /\ <<Head(s)>>[1] = Head(s)
  BY <1>1
<1>3. /\ t \in Seq(S) /\ Len(t) = 1 + Len(Tail(s))
      /\ \A i \in 1 .. 1 + Len(Tail(s)) :
             t[i] = IF i <= 1 THEN <<Head(s)>>[i] ELSE Tail(s)[i - 1]
  BY <1>1, <1>2, ConcatProperties
<1> HIDE DEF t
<1>4. ASSUME NEW i \in 1 .. Len(s) PROVE s[i] = t[i]
  <2>1. CASE i = 1
    BY <1>1, <1>2, <1>3, <2>1
  <2>2. CASE i # 1
    <3>1. i - 1 \in 1 .. Len(Tail(s)) /\ (i - 1) + 1 = i /\ ~(i <= 1)
      BY <1>1, <2>2
    <3>2. Tail(s)[i - 1] = s[i]
      BY <1>1, <3>1
    <3> QED
      BY <1>1, <1>3, <3>1, <3>2
  <2> QED
    BY <2>1, <2>2
<1>5. s = t
  BY <1>1, <1>3, <1>4, SeqEqual
<1> QED
  BY <1>1, <1>5 DEF t

LEMMA HeadOfConcat ==
  ASSUME NEW S, NEW e \in S, NEW t \in Seq(S)
  PROVE  Head(<<e>> \o t) = e
<1>1. <<e>> \in Seq(S) /\ Len(<<e>>) = 1 /\ <<e>>[1] = e
  OBVIOUS
<1>2. (<<e>> \o t)[1] = e
  BY <1>1, ConcatProperties, LenProperties
<1> QED
  BY <1>2

LEMMA ConcatCommands ==
  \A s, t, u \in Seq(Command) : (s \o t) \o u = s \o (t \o u)
  BY ConcatAssociative

\* One published last comes last.
LEMMA AppendAscends ==
  ASSUME NEW s \in Seq(Command), NEW c \in Command, Ascending(s),
         \A i \in Ids(s) : i < c.id
  PROVE  Ascending(s \o <<c>>) /\ Ids(s \o <<c>>) = Ids(s) \cup {c.id}
<1> DEFINE t == s \o <<c>>
<1>1. /\ Len(s) \in Nat /\ Len(t) = Len(s) + 1 /\ t[Len(s) + 1] = c
      /\ \A i \in 1 .. Len(s) : t[i] = s[i]
  <2>1. t = Append(s, c)
    BY AppendIsConcat
  <2> QED
    BY <2>1, AppendProperties, LenProperties
<1>2. \A i \in 1 .. Len(s) : s[i].id < c.id /\ s[i].id \in Nat /\ c.id \in Nat
  <2>1. \A i \in 1 .. Len(s) : s[i] \in Command
    BY ElementOfSeq
  <2> QED
    BY <2>1, MaxCommandsAssumption DEF Ids, Command
<1> HIDE DEF t
<1>3. ASSUME NEW i \in 1 .. Len(t), NEW j \in 1 .. Len(t), i < j
      PROVE  t[i].id < t[j].id
  <2>1. i \in 1 .. Len(s) /\ t[i] = s[i]
    BY <1>1, <1>3
  <2>2. CASE j = Len(s) + 1
    BY <1>1, <1>2, <2>1, <2>2
  <2>3. CASE j \in 1 .. Len(s)
    BY <1>1, <1>3, <2>1, <2>3 DEF Ascending
  <2> QED
    BY <1>1, <2>2, <2>3
<1>4. Ids(t) = Ids(s) \cup {c.id}
  BY <1>1 DEF Ids
<1> QED
  BY <1>3, <1>4 DEF t, Ascending

\* Without one element the others keep their order and their ids.
LEMMA RemoveAscends ==
  ASSUME NEW s \in Seq(Command), NEW c \in Command, NEW t \in Seq(Command),
         Ascending(s \o (<<c>> \o t))
  PROVE  /\ Ascending(s \o t) /\ Ids(s \o t) = Ids(s \o (<<c>> \o t)) \ {c.id}
         /\ c.id \in Ids(s \o (<<c>> \o t))
<1> DEFINE all == s \o (<<c>> \o t)
           rest == s \o t
           n == Len(s)
           m == Len(t)
<1>1. n \in Nat /\ m \in Nat
  BY LenProperties
<1>2. /\ <<c>> \o t \in Seq(Command) /\ Len(<<c>> \o t) = m + 1
      /\ \A i \in 1 .. m + 1 : (<<c>> \o t)[i] = IF i <= 1 THEN c ELSE t[i - 1]
  <2>1. <<c>> \in Seq(Command) /\ Len(<<c>>) = 1 /\ <<c>>[1] = c
    OBVIOUS
  <2> QED
    BY <1>1, <2>1, ConcatProperties
<1>3. /\ all \in Seq(Command) /\ Len(all) = n + m + 1
      /\ \A i \in 1 .. n : all[i] = s[i]
      /\ all[n + 1] = c
      /\ \A i \in 1 .. m : all[n + 1 + i] = t[i]
  <2>1. /\ all \in Seq(Command) /\ Len(all) = n + (m + 1)
        /\ \A i \in 1 .. n + (m + 1) : all[i] = IF i <= n THEN s[i] ELSE (<<c>> \o t)[i - n]
    BY <1>2, ConcatProperties
  <2> HIDE DEF all
  <2>2. /\ \A i \in 1 .. n : i \in 1 .. n + (m + 1) /\ i <= n
        /\ n + 1 \in 1 .. n + (m + 1) /\ ~(n + 1 <= n) /\ (n + 1) - n = 1
        /\ \A i \in 1 .. m : /\ n + 1 + i \in 1 .. n + (m + 1) /\ ~(n + 1 + i <= n)
                            /\ (n + 1 + i) - n = i + 1
                            /\ i + 1 \in 1 .. m + 1 /\ ~(i + 1 <= 1) /\ (i + 1) - 1 = i
        /\ 1 \in 1 .. m + 1 /\ n + (m + 1) = n + m + 1
    BY <1>1
  <2>3. \A i \in 1 .. m : (<<c>> \o t)[i + 1] = t[i]
    BY <1>2, <2>2
  <2>4. (<<c>> \o t)[1] = c
    BY <1>2, <2>2
  <2>5. all[n + 1] = c
    BY <2>1, <2>2, <2>4
  <2>6. \A i \in 1 .. m : all[n + 1 + i] = t[i]
    <3> SUFFICES ASSUME NEW i \in 1 .. m PROVE all[n + 1 + i] = t[i]
      OBVIOUS
    <3>1. PICK k \in 1 .. n + (m + 1) : k = n + 1 + i /\ ~(k <= n) /\ k - n = i + 1
      BY <2>2
    <3>2. all[k] = (<<c>> \o t)[k - n]
      BY <2>1, <3>1
    <3> QED
      BY <2>3, <3>1, <3>2
  <2> QED
    BY <2>1, <2>2, <2>5, <2>6
<1>4. /\ rest \in Seq(Command) /\ Len(rest) = n + m
      /\ \A i \in 1 .. n + m : rest[i] = IF i <= n THEN s[i] ELSE t[i - n]
  BY ConcatProperties
<1> HIDE DEF all, rest, n, m
<1>5. \A i \in 1 .. n + m : rest[i] = all[IF i <= n THEN i ELSE i + 1]
  <2>1. ASSUME NEW i \in 1 .. n + m, i > n PROVE rest[i] = all[i + 1]
    <3>1. i - n \in 1 .. m /\ n + 1 + (i - n) = i + 1
      BY <1>1, <2>1
    <3>2. all[n + 1 + (i - n)] = t[i - n]
      BY <1>3, <3>1
    <3> QED
      BY <1>1, <1>4, <2>1, <3>1, <3>2
  <2>2. ASSUME NEW i \in 1 .. n + m, i <= n PROVE rest[i] = all[i]
    <3>1. i \in 1 .. n
      BY <1>1, <2>2
    <3> QED
      BY <1>3, <1>4, <2>2, <3>1
  <2> QED
    BY <1>1, <2>1, <2>2
<1>6. Ascending(all)
  BY DEF all
<1>7. Ascending(rest)
  <2> SUFFICES ASSUME NEW i \in 1 .. n + m, NEW j \in 1 .. n + m, i < j
               PROVE  rest[i].id < rest[j].id
    BY <1>4 DEF Ascending
  <2> DEFINE up(k) == IF k <= n THEN k ELSE k + 1
  <2>1. up(i) \in 1 .. Len(all) /\ up(j) \in 1 .. Len(all) /\ up(i) < up(j)
    BY <1>1, <1>3
  <2>2. all[up(i)].id < all[up(j)].id
    BY <1>6, <2>1 DEF Ascending
  <2> QED
    BY <1>5, <2>2
<1>8. c.id \in Ids(all)
  BY <1>1, <1>3 DEF Ids
<1>9. Ids(rest) = Ids(all) \ {c.id}
  <2>1. ASSUME NEW i \in 1 .. n + m PROVE rest[i].id \in Ids(all) \ {c.id}
    <3> DEFINE j == IF i <= n THEN i ELSE i + 1
    <3>1. j \in 1 .. Len(all) /\ j # n + 1 /\ n + 1 \in 1 .. Len(all)
      BY <1>1, <1>3
    <3>2. all[j].id # all[n + 1].id
      <4>1. all[j].id \in Nat /\ all[n + 1].id \in Nat
        <5>1. all[j] \in Command /\ all[n + 1] \in Command
          BY <1>3, <3>1, ElementOfSeq
        <5> QED
          BY <5>1, MaxCommandsAssumption DEF Command
      <4>2. j < n + 1 \/ n + 1 < j
        BY <1>1, <3>1
      <4> QED
        BY <1>6, <3>1, <4>1, <4>2 DEF Ascending
    <3> QED
      BY <1>3, <1>5, <3>1, <3>2 DEF Ids
  <2>2. ASSUME NEW x \in Ids(all), x # c.id PROVE x \in Ids(rest)
    <3>1. PICK k \in 1 .. Len(all) : x = all[k].id
      BY DEF Ids
    <3>2. k # n + 1
      BY <1>3, <2>2, <3>1
    <3>3. PICK i \in 1 .. n + m : k = IF i <= n THEN i ELSE i + 1
      <4>1. CASE k <= n
        <5>1. k \in 1 .. n + m
          BY <1>1, <1>3, <4>1
        <5> QED
          BY <4>1, <5>1
      <4>2. CASE k > n
        <5>1. k - 1 \in 1 .. n + m /\ k - 1 > n /\ (k - 1) + 1 = k
          BY <1>1, <1>3, <3>2, <4>2
        <5> QED
          BY <1>1, <5>1
      <4> QED
        BY <1>1, <4>1, <4>2
    <3> QED
      BY <1>4, <1>5, <3>1, <3>3 DEF Ids
  <2> QED
    BY <1>4, <2>1, <2>2 DEF Ids
<1> QED
  BY <1>7, <1>8, <1>9 DEF all, rest

-----------------------------------------------------------------------------
(* The bus. *)

LEMMA BusShapes ==
  ASSUME NEW b \in Bus
  PROVE  /\ Waiting(b) \in Seq(Command)
         /\ \A c \in Command : /\ Publish(b, c) \in Bus
                               /\ Waiting(Publish(b, c)) = Waiting(b) \o <<c>>
         /\ \A s \in Seq(Command) : /\ Defer(b, s) \in Bus
                                    /\ Waiting(Defer(b, s)) = s \o Waiting(b)
         /\ Waiting(b) # <<>> =>
              /\ Without(b) \in Bus /\ Head(Waiting(b)) \in Command
              /\ Waiting(b) = <<Head(Waiting(b))>> \o Waiting(Without(b))
<1> DEFINE d == b.deferred
           q == b.queue
<1>1. d \in Seq(Command) /\ q \in Seq(Command) /\ Waiting(b) = d \o q
  BY DEF Bus, Waiting
<1>2. Waiting(b) \in Seq(Command)
  BY <1>1, ConcatProperties
<1>3. ASSUME NEW c \in Command
      PROVE  Publish(b, c) \in Bus /\ Waiting(Publish(b, c)) = Waiting(b) \o <<c>>
  <2>1. Publish(b, c) \in Bus /\ Waiting(Publish(b, c)) = d \o Append(q, c)
    BY <1>1, AppendProperties DEF Publish, Bus, Waiting
  <2>2. Append(q, c) = q \o <<c>> /\ <<c>> \in Seq(Command)
    BY <1>1, AppendIsConcat
  <2>3. (d \o q) \o <<c>> = d \o (q \o <<c>>)
    BY <1>1, <2>2, ConcatCommands
  <2> QED
    BY <1>1, <2>1, <2>2, <2>3
<1>4. ASSUME NEW s \in Seq(Command)
      PROVE  Defer(b, s) \in Bus /\ Waiting(Defer(b, s)) = s \o Waiting(b)
  <2>1. s \o d \in Seq(Command)
    BY <1>1, ConcatProperties
  <2>2. Defer(b, s) \in Bus /\ Waiting(Defer(b, s)) = (s \o d) \o q
    BY <1>1, <2>1 DEF Defer, Bus, Waiting
  <2>3. (s \o d) \o q = s \o (d \o q)
    BY <1>1, ConcatCommands
  <2> QED
    BY <1>1, <2>2, <2>3
<1>5. ASSUME Waiting(b) # <<>>
      PROVE  /\ Without(b) \in Bus /\ Head(Waiting(b)) \in Command
             /\ Waiting(b) = <<Head(Waiting(b))>> \o Waiting(Without(b))
  <2>1. CASE d # <<>>
    <3>1. Tail(d) \in Seq(Command) /\ Head(d) \in Command /\ d = <<Head(d)>> \o Tail(d)
      BY <1>1, <2>1, HeadAndTail
    <3>2. Without(b) \in Bus /\ Waiting(Without(b)) = Tail(d) \o q
      BY <1>1, <2>1, <3>1 DEF Without, Bus, Waiting
    <3>3. <<Head(d)>> \in Seq(Command)
      BY <3>1
    <3>4. Waiting(b) = <<Head(d)>> \o (Tail(d) \o q)
      <4>1. (<<Head(d)>> \o Tail(d)) \o q = <<Head(d)>> \o (Tail(d) \o q)
        BY <1>1, <3>1, <3>3, ConcatCommands
      <4> QED
        BY <1>1, <3>1, <4>1
    <3>5. Tail(d) \o q \in Seq(Command)
      BY <1>1, <3>1, ConcatProperties
    <3>6. Head(Waiting(b)) = Head(d)
      BY <3>1, <3>4, <3>5, HeadOfConcat
    <3> QED
      BY <3>1, <3>2, <3>4, <3>6
  <2>2. CASE d = <<>>
    <3>1. Waiting(b) = q
      BY <1>1, <2>2, ConcatEmptySeq
    <3>2. Tail(q) \in Seq(Command) /\ Head(q) \in Command /\ q = <<Head(q)>> \o Tail(q)
      BY <1>1, <1>5, <3>1, HeadAndTail
    <3>3. Without(b) \in Bus /\ Waiting(Without(b)) = d \o Tail(q)
      BY <1>1, <2>2, <3>2 DEF Without, Bus, Waiting
    <3>4. d \o Tail(q) = Tail(q)
      BY <2>2, <3>2, ConcatEmptySeq
    <3> QED
      BY <3>1, <3>2, <3>3, <3>4
  <2> QED
    BY <2>1, <2>2
<1> QED
  BY <1>2, <1>3, <1>4, <1>5

-----------------------------------------------------------------------------
(* What is kept: set aside by check_signals or an approval, by a pause within, *)
(* and on the bus. *)

LEMMA KeptShape ==
  ASSUME bus \in Bus, held \in Seq(Command), paused \in Seq(Command)
  PROVE  held \o paused \in Seq(Command) /\ Kept \in Seq(Command)
  BY BusShapes, ConcatProperties DEF Kept

LEMMA OrderIsOrderKept ==
  ASSUME bus \in Bus, held \in Seq(Command), paused \in Seq(Command)
  PROVE  OrderKept <=> Ascending(Kept) /\ Ids(Kept) = (1 .. sent) \ gone
<1>1. DOMAIN Kept = 1 .. Len(Kept)
  BY KeptShape, LenProperties
<1> QED
  BY <1>1 DEF OrderKept, Ascending, Ids

\* What a step may do to the commands kept: nothing, take the next one of the
\* bus, add one at the end, or lose them all.
KeptMoves ==
    \/ Kept' = Kept /\ sent' = sent
    \/ /\ HasCommand /\ sent' = sent
       /\ Kept' = (held \o paused) \o Waiting(Without(bus))
    \/ /\ sent' = sent + 1
       /\ \E kind \in Kind : Kept' = Kept \o <<[id |-> sent + 1, kind |-> kind]>>
    \/ Kept' = <<>> /\ sent' = sent

\* Nothing is moved.
LEMMA QueuesStay ==
  ASSUME Queues, UNCHANGED <<commands, wait>>,
         paused # <<>> => pc' = "paused",
         held # <<>> => pc' \in {"signals", "paused", "approval"}
  PROVE  Queues' /\ KeptMoves
  BY DEF Queues, Kept, KeptMoves, commands, wait

\* Commands are moved, and are kept.
LEMMA QueuesKeep ==
  ASSUME Queues, UNCHANGED <<sent, gone, aborted>>,
         bus' \in Bus, held' \in Seq(Command), paused' \in Seq(Command),
         Kept' = Kept,
         paused' # <<>> => pc' = "paused",
         held' # <<>> => pc' \in {"signals", "paused", "approval"}
  PROVE  Queues' /\ KeptMoves
  BY DEF Queues, KeptMoves

\* The next command is taken for good, and what was set aside may be put back.
LEMMA QueuesTake ==
  ASSUME Queues, HasCommand, NEW b, TakeFrom(b),
         b \in Bus, held' \in Seq(Command), paused' \in Seq(Command),
         Kept' = (held \o paused) \o Waiting(Without(bus)),
         paused' # <<>> => pc' = "paused",
         held' # <<>> => pc' \in {"signals", "paused", "approval"}
  PROVE  Queues' /\ KeptMoves
<1> DEFINE aside == held \o paused
           next == NextCommand
           left == Waiting(Without(bus))
<1>1. aside \in Seq(Command)
  BY KeptShape DEF Queues
<1>2. /\ Without(bus) \in Bus /\ next \in Command
      /\ Kept = aside \o (<<next>> \o left)
  BY BusShapes DEF Queues, HasCommand, NextCommand, Kept
<1>3. left \in Seq(Command) /\ Kept' = aside \o left
  BY <1>2, BusShapes
<1>4. Ascending(Kept) /\ Ids(Kept) = (1 .. sent) \ gone
  BY DEF Queues
<1>5. /\ bus' \in Bus /\ gone' = gone \cup {next.id} /\ sent' = sent
      /\ aborted' = (aborted \/ next.kind = "abort")
  BY DEF TakeFrom
<1> HIDE DEF aside, next, left
<1>6. /\ Ascending(aside \o left) /\ Ids(aside \o left) = Ids(Kept) \ {next.id}
      /\ next.id \in Ids(Kept)
  BY <1>1, <1>2, <1>3, <1>4, RemoveAscends
<1>7. /\ sent' \in 0 .. MaxCommands /\ gone' \subseteq 1 .. sent'
      /\ Ids(aside \o left) = (1 .. sent') \ gone'
  BY <1>4, <1>5, <1>6 DEF Queues
<1>8. aborted' \in BOOLEAN
  BY <1>5 DEF Queues
<1>9. Ascending(Kept)' /\ Ids(Kept)' = ((1 .. sent) \ gone)'
  BY <1>3, <1>6, <1>7 DEF Ascending, Ids
<1>10. KeptMoves
  BY <1>5 DEF KeptMoves
<1> QED
  BY <1>5, <1>7, <1>8, <1>9, <1>10 DEF Queues

\* It is dropped or acted upon and nothing is put back.
LEMMA QueuesDrop ==
  ASSUME Queues, HasCommand, Take, UNCHANGED wait,
         paused # <<>> => pc' = "paused",
         held # <<>> => pc' \in {"signals", "paused", "approval"}
  PROVE  Queues' /\ KeptMoves
<1>1. Without(bus) \in Bus
  BY BusShapes DEF Queues, HasCommand
<1>2. bus' = Without(bus) /\ held' = held /\ paused' = paused
  BY DEF Take, TakeFrom, wait
<1>3. Kept' = (held \o paused) \o Waiting(Without(bus))
  BY <1>2 DEF Kept
<1> QED
  BY <1>1, <1>2, <1>3, QueuesTake DEF Queues, Take

\* A command is published.
LEMMA QueuesPublish ==
  ASSUME Queues, UNCHANGED <<gone, aborted, wait, pc>>, sent < MaxCommands,
         sent' = sent + 1, NEW kind \in Kind,
         bus' = Publish(bus, [id |-> sent + 1, kind |-> kind])
  PROVE  Queues' /\ KeptMoves
<1> DEFINE c == [id |-> sent + 1, kind |-> kind]
<1>1. /\ sent \in Nat /\ sent + 1 \in 1 .. MaxCommands /\ c \in Command /\ c.id = sent + 1
      /\ held' = held /\ paused' = paused
  BY MaxCommandsAssumption DEF Queues, Command, wait
<1> HIDE DEF c
<1>2. /\ bus' \in Bus /\ Waiting(bus) \in Seq(Command)
      /\ Waiting(bus') = Waiting(bus) \o <<c>>
  BY <1>1, BusShapes DEF Queues, c
<1>3. held \o paused \in Seq(Command) /\ Kept \in Seq(Command) /\ <<c>> \in Seq(Command)
  BY <1>1, KeptShape DEF Queues
<1>4. Kept' = Kept \o <<c>>
  <2>1. ((held \o paused) \o Waiting(bus)) \o <<c>>
          = (held \o paused) \o (Waiting(bus) \o <<c>>)
    BY <1>2, <1>3, ConcatCommands
  <2> QED
    BY <1>1, <1>2, <2>1 DEF Kept
<1>5. \A i \in Ids(Kept) : i < c.id
  BY <1>1 DEF Queues
<1>6. /\ Ascending(Kept \o <<c>>)
      /\ Ids(Kept \o <<c>>) = Ids(Kept) \cup {c.id}
  BY <1>1, <1>3, <1>5, AppendAscends DEF Queues
<1>7. c.id \notin gone /\ 1 .. sent' = (1 .. sent) \cup {c.id}
  BY <1>1 DEF Queues
<1>8. Ids(Kept \o <<c>>) = (1 .. sent') \ gone'
  BY <1>6, <1>7 DEF Queues
<1>9. Ascending(Kept)' /\ Ids(Kept)' = ((1 .. sent) \ gone)'
  BY <1>4, <1>6, <1>8 DEF Ascending, Ids
<1>10. sent' \in 0 .. MaxCommands /\ gone' \subseteq 1 .. sent'
  BY <1>1, <1>7 DEF Queues
<1>11. KeptMoves
  BY <1>4 DEF KeptMoves, c
<1> QED
  BY <1>1, <1>2, <1>9, <1>10, <1>11 DEF Queues

\* A process is killed with all it keeps.
LEMMA QueuesLost ==
  ASSUME Queues, bus' = EmptyBus, held' = <<>>, paused' = <<>>, sent' = sent,
         gone' = 1 .. sent, aborted' = FALSE
  PROVE  Queues' /\ KeptMoves
<1>1. /\ EmptyBus \in Bus /\ Waiting(EmptyBus) = <<>> \o <<>>
      /\ <<>> \in Seq(Command) /\ Len(<<>>) = 0
  BY EmptySeq DEF EmptyBus, Bus, Waiting
<1>2. Kept' = (<<>> \o <<>>) \o (<<>> \o <<>>)
  BY <1>1 DEF Kept
<1>3. <<>> \o <<>> = <<>>
  BY <1>1, ConcatEmptySeq
<1>4. Len(Kept') = 0
  BY <1>1, <1>2, <1>3
<1>5. Ascending(Kept)' /\ Ids(Kept)' = {}
  BY <1>4 DEF Ascending, Ids
<1>6. KeptMoves
  BY <1>2, <1>3 DEF KeptMoves
<1> QED
  BY <1>1, <1>5, <1>6 DEF Queues

LEMMA Regroup ==
  ASSUME NEW s \in Seq(Command), NEW t \in Seq(Command), NEW u \in Seq(Command),
         NEW c \in Command
  PROVE  /\ (<<>> \o <<>>) \o (s \o u) = (s \o <<>>) \o u
         /\ (s \o <<>>) \o (t \o u) = (s \o t) \o u
         /\ (<<>> \o <<>>) \o (s \o (t \o u)) = (s \o t) \o u
         /\ (Append(s, c) \o <<>>) \o u = (s \o <<>>) \o (<<c>> \o u)
         /\ (s \o Append(t, c)) \o u = (s \o t) \o (<<c>> \o u)
<1>1. /\ <<>> \in Seq(Command) /\ <<c>> \in Seq(Command)
      /\ Append(s, c) = s \o <<c>> /\ Append(t, c) = t \o <<c>>
  BY AppendIsConcat
<1>2. /\ s \o t \in Seq(Command) /\ s \o u \in Seq(Command) /\ t \o u \in Seq(Command)
      /\ s \o (t \o u) \in Seq(Command) /\ s \o <<c>> \in Seq(Command)
      /\ t \o <<c>> \in Seq(Command) /\ <<c>> \o u \in Seq(Command)
  BY <1>1, ConcatProperties
<1>3. \A r \in Seq(Command) : r \o <<>> = r /\ <<>> \o r = r
  BY ConcatEmptySeq
<1>4. /\ (s \o t) \o u = s \o (t \o u)
      /\ (s \o <<c>>) \o u = s \o (<<c>> \o u)
  <2>1. (s \o t) \o u = s \o (t \o u)
    BY ConcatCommands
  <2>2. (s \o <<c>>) \o u = s \o (<<c>> \o u)
    BY <1>1, ConcatCommands
  <2> QED
    BY <2>1, <2>2
<1>5. (s \o (t \o <<c>>)) \o u = (s \o t) \o (<<c>> \o u)
  <2>1. s \o (t \o <<c>>) = (s \o t) \o <<c>>
    BY <1>1, ConcatCommands
  <2>2. ((s \o t) \o <<c>>) \o u = (s \o t) \o (<<c>> \o u)
    BY <1>1, <1>2, ConcatCommands
  <2> QED
    BY <2>1, <2>2
<1>6. (<<>> \o <<>>) \o (s \o u) = (s \o <<>>) \o u
  BY <1>1, <1>2, <1>3
<1>7. (s \o <<>>) \o (t \o u) = (s \o t) \o u
  BY <1>3, <1>4
<1>8. (<<>> \o <<>>) \o (s \o (t \o u)) = (s \o t) \o u
  BY <1>1, <1>2, <1>3, <1>4
<1>9. (Append(s, c) \o <<>>) \o u = (s \o <<>>) \o (<<c>> \o u)
  BY <1>1, <1>2, <1>3, <1>4
<1>10. (s \o Append(t, c)) \o u = (s \o t) \o (<<c>> \o u)
  BY <1>1, <1>5
<1> QED
  BY <1>6, <1>7, <1>8, <1>9, <1>10

\* What a wait finds when there is a command.
LEMMA NextShape ==
  ASSUME Queues, HasCommand
  PROVE  /\ Without(bus) \in Bus /\ NextCommand \in Command
         /\ Waiting(Without(bus)) \in Seq(Command)
         /\ Kept = (held \o paused) \o (<<NextCommand>> \o Waiting(Without(bus)))
<1>1. Without(bus) \in Bus
  BY BusShapes DEF Queues, HasCommand
<1> QED
  BY <1>1, BusShapes DEF Queues, HasCommand, NextCommand, Kept

LEMMA QueuesSignals == ASSUME Queues, Signals PROVE Queues' /\ KeptMoves
<1> DEFINE left == Waiting(Without(bus))
<1>1. /\ bus \in Bus /\ held \in Seq(Command) /\ paused \in Seq(Command)
      /\ pc = "signals" => paused = <<>>
  BY DEF Queues
<1>2. <<>> \in Seq(Command)
  OBVIOUS
<1>3. CASE SignalAbort
  <2>1. /\ HasCommand /\ TakeFrom(Defer(Without(bus), held)) /\ held' = <<>>
        /\ paused' = paused /\ paused = <<>>
    BY <1>1, <1>3 DEF SignalAbort, NextIs
  <2>2. Defer(Without(bus), held) \in Bus /\ Waiting(Defer(Without(bus), held)) = held \o left
    BY <1>1, <2>1, NextShape, BusShapes
  <2>3. Kept' = (<<>> \o <<>>) \o (held \o left)
    BY <2>1, <2>2 DEF Kept, TakeFrom
  <2>4. Kept' = (held \o paused) \o left
    BY <1>1, <2>1, <2>3, NextShape, Regroup
  <2> QED
    BY <1>1, <1>2, <2>1, <2>2, <2>4, QueuesTake
<1>4. CASE SignalPause
  BY <1>4, QueuesDrop DEF SignalPause, NextIs, Queues
<1>5. CASE SignalGate
  BY <1>5, QueuesDrop DEF SignalGate, NextIs, Queues, thread
<1>6. CASE SignalOther
  <2>1. /\ HasCommand /\ TakeAside /\ held' = Append(held, NextCommand)
        /\ paused' = paused /\ paused = <<>> /\ pc' = "signals"
    BY <1>1, <1>6 DEF SignalOther
  <2>2. bus' \in Bus /\ held' \in Seq(Command)
    BY <1>1, <2>1, NextShape, AppendProperties DEF TakeAside
  <2>3. Kept' = (Append(held, NextCommand) \o <<>>) \o left
    BY <2>1 DEF Kept, TakeAside
  <2>4. Kept' = Kept
    <3>1. NextCommand \in Command /\ left \in Seq(Command)
          /\ Kept = (held \o paused) \o (<<NextCommand>> \o left)
      BY <2>1, NextShape
    <3>2. (Append(held, NextCommand) \o <<>>) \o left
            = (held \o <<>>) \o (<<NextCommand>> \o left)
      BY <1>1, <3>1, Regroup, ZenonT(60)
    <3> QED
      BY <2>1, <2>3, <3>1, <3>2
  <2> QED
    BY <1>1, <1>2, <2>1, <2>2, <2>4, QueuesKeep DEF TakeAside
<1>7. CASE SignalsDone
  <2>1. /\ bus' = Defer(bus, held) /\ UNCHANGED <<sent, gone, aborted>>
        /\ held' = <<>> /\ paused' = paused /\ paused = <<>>
    BY <1>1, <1>7 DEF SignalsDone, PutBack
  <2>2. /\ bus' \in Bus /\ Waiting(bus') = held \o Waiting(bus)
        /\ Waiting(bus) \in Seq(Command)
    BY <1>1, <2>1, BusShapes
  <2>3. Kept' = (<<>> \o <<>>) \o (held \o Waiting(bus))
    BY <2>1, <2>2 DEF Kept
  <2>4. Kept' = Kept
    <3>1. held \o Waiting(bus) \in Seq(Command) /\ held \o <<>> = held
      BY <1>1, <2>2, ConcatProperties, ConcatEmptySeq
    <3>2. <<>> \o (held \o Waiting(bus)) = held \o Waiting(bus) /\ <<>> \o <<>> = <<>>
      BY <1>2, <3>1, ConcatEmptySeq
    <3> QED
      BY <2>1, <2>3, <3>1, <3>2 DEF Kept
  <2> QED
    BY <1>1, <1>2, <2>1, <2>2, <2>4, QueuesKeep
<1>8. CASE PausedResume
  <2>1. /\ HasCommand /\ TakeFrom(Defer(Without(bus), paused)) /\ paused' = <<>>
        /\ held' = held /\ pc' = "signals"
    BY <1>8 DEF PausedResume, NextIs
  <2>2. /\ Defer(Without(bus), paused) \in Bus
        /\ Waiting(Defer(Without(bus), paused)) = paused \o left
    BY <1>1, <2>1, NextShape, BusShapes
  <2>3. Kept' = (held \o <<>>) \o (paused \o left)
    BY <2>1, <2>2 DEF Kept, TakeFrom
  <2>4. Kept' = (held \o paused) \o left
    BY <1>1, <2>1, <2>3, NextShape, Regroup
  <2> QED
    BY <1>1, <1>2, <2>1, <2>2, <2>4, QueuesTake
<1>9. CASE PausedAbort
  <2> DEFINE a == Defer(Without(bus), paused)
             b == Defer(a, held)
  <2>1. /\ HasCommand /\ TakeFrom(b) /\ paused' = <<>> /\ held' = <<>>
    BY <1>9 DEF PausedAbort, NextIs
  <2>2. a \in Bus /\ Waiting(a) = paused \o left
    BY <1>1, <2>1, NextShape, BusShapes
  <2> HIDE DEF a
  <2>3. b \in Bus /\ Waiting(b) = held \o (paused \o left)
    <3>1. b \in Bus /\ Waiting(b) = held \o Waiting(a)
      BY <1>1, <2>2, BusShapes
    <3> QED
      BY <2>2, <3>1
  <2> HIDE DEF b
  <2>4. Kept' = (<<>> \o <<>>) \o (held \o (paused \o left))
    BY <2>1, <2>3 DEF Kept, TakeFrom
  <2>5. Kept' = (held \o paused) \o left
    BY <1>1, <2>1, <2>4, NextShape, Regroup
  <2> QED
    BY <1>1, <1>2, <2>1, <2>3, <2>5, QueuesTake
<1>10. CASE PausedGate
  BY <1>10, QueuesDrop DEF PausedGate, NextIs, Queues, thread
<1>11. CASE PausedOther
  <2>1. /\ HasCommand /\ TakeAside /\ paused' = Append(paused, NextCommand)
        /\ held' = held /\ pc' = "paused"
    BY <1>11 DEF PausedOther
  <2>2. bus' \in Bus /\ paused' \in Seq(Command)
    BY <1>1, <2>1, NextShape, AppendProperties DEF TakeAside
  <2>3. Kept' = (held \o Append(paused, NextCommand)) \o left
    BY <2>1 DEF Kept, TakeAside
  <2>4. Kept' = Kept
    <3>1. NextCommand \in Command /\ left \in Seq(Command)
          /\ Kept = (held \o paused) \o (<<NextCommand>> \o left)
      BY <2>1, NextShape
    <3> QED
      BY <1>1, <2>1, <2>3, <3>1, Regroup, ZenonT(60)
  <2> QED
    BY <1>1, <2>1, <2>2, <2>4, QueuesKeep DEF TakeAside
<1> QED
  BY <1>3, <1>4, <1>5, <1>6, <1>7, <1>8, <1>9, <1>10, <1>11 DEF Signals

LEMMA QueuesApproval == ASSUME Queues, Approval PROVE Queues' /\ KeptMoves
<1> DEFINE left == Waiting(Without(bus))
<1>1. /\ bus \in Bus /\ held \in Seq(Command) /\ <<>> \in Seq(Command)
      /\ pc = "approval" => paused = <<>>
  BY DEF Queues
<1>2. CASE AskApproval
  BY <1>2, QueuesStay DEF AskApproval, Queues
<1>3. CASE ApprovalApprove \/ ApprovalRefuse
  <2>1. /\ HasCommand /\ TakeFrom(Defer(Without(bus), held)) /\ held' = <<>>
        /\ paused' = paused /\ paused = <<>>
    BY <1>1, <1>3 DEF ApprovalApprove, ApprovalRefuse, NextIs
  <2>2. Defer(Without(bus), held) \in Bus /\ Waiting(Defer(Without(bus), held)) = held \o left
    BY <1>1, <2>1, NextShape, BusShapes
  <2>3. Kept' = (<<>> \o <<>>) \o (held \o left)
    BY <2>1, <2>2 DEF Kept, TakeFrom
  <2>4. Kept' = (held \o paused) \o left
    BY <1>1, <2>1, <2>3, NextShape, Regroup
  <2> QED
    BY <1>1, <2>1, <2>2, <2>4, QueuesTake
<1>4. CASE ApprovalOther
  <2>1. /\ HasCommand /\ TakeAside /\ held' = Append(held, NextCommand)
        /\ paused' = paused /\ paused = <<>> /\ pc' = "approval"
    BY <1>1, <1>4 DEF ApprovalOther
  <2>2. bus' \in Bus /\ held' \in Seq(Command)
    BY <1>1, <2>1, NextShape, AppendProperties DEF TakeAside
  <2>3. Kept' = (Append(held, NextCommand) \o <<>>) \o left
    BY <2>1 DEF Kept, TakeAside
  <2>4. Kept' = Kept
    <3>1. NextCommand \in Command /\ left \in Seq(Command)
          /\ Kept = (held \o paused) \o (<<NextCommand>> \o left)
      BY <2>1, NextShape
    <3> QED
      BY <1>1, <2>1, <2>3, <3>1, Regroup
  <2> QED
    BY <1>1, <2>1, <2>2, <2>4, QueuesKeep DEF TakeAside
<1> QED
  BY <1>2, <1>3, <1>4 DEF Approval

LEMMA QueuesConversation == ASSUME Queues, Conversation PROVE Queues' /\ KeptMoves
<1>1. pc \in {"grill", "reply"} => held = <<>> /\ paused = <<>>
  BY DEF Queues
<1>2. CASE AgentTurn \/ ConversationFails
  BY <1>1, <1>2, QueuesStay DEF AgentTurn, ConversationFails
<1>3. CASE HumanAnswers
  BY <1>1, <1>3, QueuesDrop DEF HumanAnswers, NextIs
<1>4. CASE ConversationCloses
  <2>1. HasCommand /\ Take /\ UNCHANGED wait
    BY <1>4 DEF ConversationCloses, NextIs, CheckSignals
  <2> QED
    BY <1>1, <1>4, <2>1, QueuesDrop DEF ConversationCloses
<1>5. CASE ReplyOther
  <2>1. HasCommand /\ bus' = Defer(Without(bus), <<NextCommand>>)
        /\ UNCHANGED <<sent, gone, aborted, held, paused, pc>>
    BY <1>5 DEF ReplyOther, thread, wait
  <2>2. <<NextCommand>> \in Seq(Command) /\ Without(bus) \in Bus
    BY <2>1, NextShape
  <2>3. bus' \in Bus /\ Waiting(bus') = <<NextCommand>> \o Waiting(Without(bus))
    BY <2>1, <2>2, BusShapes
  <2>4. Kept' = Kept
    BY <2>1, <2>3, NextShape DEF Kept
  <2> QED
    BY <2>1, <2>3, <2>4, QueuesKeep DEF Queues
<1> QED
  BY <1>2, <1>3, <1>4, <1>5 DEF Conversation

LEMMA QueuesReviewing == ASSUME Queues, Reviewing PROVE Queues' /\ KeptMoves
<1>1. pc \notin {"signals", "paused", "approval"} => held = <<>> /\ paused = <<>>
  BY DEF Queues
<1>2. CASE Judge \/ Rework
  <2>1. UNCHANGED <<commands, wait>> /\ pc \in {"verdict", "rework"}
    BY <1>2 DEF Judge, Rework, MarkTask, CheckSignals
  <2> QED
    BY <1>1, <2>1, QueuesStay
<1>3. CASE \/ ReviewGateMode \/ ReviewApprove \/ ReviewReject \/ ReviewAbort
           \/ ReviewRetry \/ ReviewPause \/ ReviewOther \/ ReviewPaused
  <2>1. /\ HasCommand /\ Take /\ UNCHANGED wait
        /\ pc \in {"manual", "review", "review_paused"}
    BY <1>3 DEF ReviewGateMode, ReviewApprove, ReviewReject, ReviewAbort,
       ReviewRetry, ReviewPause, ReviewOther, ReviewPaused, NextIs, MarkTask,
       CheckSignals, thread
  <2> QED
    BY <1>1, <2>1, QueuesDrop
<1> QED
  BY <1>2, <1>3 DEF Reviewing

LEMMA QueuesTasks == ASSUME Queues, Tasks PROVE Queues' /\ KeptMoves
<1>1. pc \notin {"signals", "paused", "approval"} => held = <<>> /\ paused = <<>>
  BY DEF Queues
<1>2. UNCHANGED <<commands, wait>> /\ pc \in {"loop", "phase", "accepted"}
  BY DEF Tasks, TakeTask, BlockUnrunnable, TaskPhaseDone, TaskPhaseFails, Accept,
     Unverified, MarkTask, CheckSignals
<1> QED
  BY <1>1, <1>2, QueuesStay

LEMMA QueuesThread ==
  ASSUME Queues, Start \/ StartFails \/ RunInitPhase \/ Load \/ Report
  PROVE  Queues' /\ KeptMoves
<1>1. pc \notin {"signals", "paused", "approval"} => held = <<>> /\ paused = <<>>
  BY DEF Queues
<1>2. UNCHANGED <<commands, wait>> /\ pc \in {"start", "init", "structure", "load", "report"}
  BY DEF Start, StartFails, RunInitPhase, InitPhaseDone, InitPhaseBlocked, Load,
     Report, CheckSignals
<1> QED
  BY <1>1, <1>2, QueuesStay

LEMMA QueuesListener == ASSUME Queues, Listening, Listener PROVE Queues' /\ KeptMoves
<1>1. CASE DeliverCommand
  <2>1. hand \in 1 .. Len(updates) /\ updates[hand] \in [what : Posted, life : Nat]
    <3>1. hand \in 1 .. Len(updates) /\ updates \in Seq([what : Posted, life : Nat])
      BY <1>1 DEF Listening, DeliverCommand
    <3> QED
      BY <3>1, ElementOfSeq
  <2>2. updates[hand].what \in Kind
    BY <1>1, <2>1, BatchAssumption DEF DeliverCommand, Commands
  <2> QED
    BY <1>1, <2>2, QueuesPublish DEF DeliverCommand, thread
<1>2. CASE TakeUpdate \/ AnswerUpdate \/ PollFails
  BY <1>2, QueuesStay DEF TakeUpdate, AnswerUpdate, PollFails, thread, Queues
<1> QED
  BY <1>1, <1>2 DEF Listener

LEMMA QueuesNext == ASSUME BatchInv, [Next]_vars PROVE Queues' /\ KeptMoves
<1>1. Queues /\ Listening
  BY DEF BatchInv
<1>2. CASE Thread
  BY <1>1, <1>2, QueuesSignals, QueuesApproval, QueuesConversation, QueuesReviewing,
     QueuesTasks, QueuesThread DEF Thread
<1>3. CASE Listener
  BY <1>1, <1>3, QueuesListener
<1>4. CASE Post \/ EditMap
  BY <1>1, <1>4, QueuesStay DEF Post, EditMap, thread, Queues
<1>5. CASE PublishLocally
  BY <1>1, <1>5, QueuesPublish DEF PublishLocally, thread
<1>6. CASE Restart
  BY <1>1, <1>6, QueuesLost DEF Restart
<1>7. CASE UNCHANGED vars
  BY <1>1, <1>7, QueuesStay DEF vars, thread, Queues
<1> QED
  BY <1>2, <1>3, <1>4, <1>5, <1>6, <1>7 DEF Next

-----------------------------------------------------------------------------
(* The thread. *)

\* The pipeline of a task that is reviewed ends with the review.
LEMMA TaskPipelines ==
  ASSUME NEW t
  PROVE  /\ TaskPipeline(t) \in Seq(Phase) /\ TaskPipeline(t) # <<>>
         /\ Reviewed(t) => TaskPipeline(t)[Len(TaskPipeline(t))] = "review"
<1>1. CASE mode = "plan"
  <2>1. TaskPipeline(t) = <<"spec", "plan">> /\ ~Reviewed(t)
    BY <1>1 DEF TaskPipeline, Reviewed
  <2> QED
    BY <2>1 DEF Phase
<1>2. CASE mode # "plan" /\ plan[t].size = "S"
  <2>1. TaskPipeline(t) = <<"spec", "plan", "implement">> /\ ~Reviewed(t)
    BY <1>2 DEF TaskPipeline, Reviewed
  <2> QED
    BY <2>1 DEF Phase
<1>3. CASE mode # "plan" /\ plan[t].size = "L"
  <2>1. TaskPipeline(t) = <<"spec", "plan", "implement_bursts", "review">>
    BY <1>3 DEF TaskPipeline
  <2> QED
    BY <2>1 DEF Phase
<1>4. CASE mode # "plan" /\ plan[t].size \notin {"S", "L"}
  <2>1. TaskPipeline(t) = <<"spec", "plan", "implement", "review">>
    BY <1>4 DEF TaskPipeline
  <2> QED
    BY <2>1 DEF Phase
<1> QED
  BY <1>1, <1>2, <1>3, <1>4

\* The initial pipeline does not end with the conversation.
LEMMA InitPipelines ==
  /\ InitPipeline \in Seq(Phase)
  /\ InitPipeline # <<>> => InitPipeline[Len(InitPipeline)] # "grill"
<1>1. CASE mode = "full"
  <2>1. InitPipeline = <<"research", "compact", "grill", "structure">>
    BY <1>1 DEF InitPipeline
  <2> QED
    BY <2>1 DEF Phase
<1>2. CASE mode \in {"simple", "focused"}
  <2>1. InitPipeline = <<"research", "structure">>
    BY <1>2 DEF InitPipeline
  <2> QED
    BY <2>1 DEF Phase
<1>3. CASE mode = "plan"
  <2>1. InitPipeline = <<"research", "grill", "structure">>
    BY <1>3 DEF InitPipeline
  <2> QED
    BY <2>1 DEF Phase
<1>4. CASE mode = "explore"
  <2>1. InitPipeline = <<"research">>
    BY <1>4 DEF InitPipeline
  <2> QED
    BY <2>1 DEF Phase
<1>5. CASE mode \notin {"full", "simple", "focused", "plan", "explore"}
  <2>1. InitPipeline = <<>>
    BY <1>5 DEF InitPipeline
  <2> QED
    BY <2>1
<1> QED
  BY <1>1, <1>2, <1>3, <1>4, <1>5

LEMMA TailEndsAlike ==
  ASSUME NEW s \in Seq(Phase), s # <<>>
  PROVE  /\ Tail(s) \in Seq(Phase)
         /\ Tail(s) # <<>> => Tail(s)[Len(Tail(s))] = s[Len(s)]
         /\ Tail(s) = <<>> => Head(s) = s[Len(s)]
<1>1. /\ Len(s) \in Nat \ {0} /\ Head(s) = s[1] /\ Tail(s) \in Seq(Phase)
      /\ Len(Tail(s)) = Len(s) - 1
      /\ \A i \in 1 .. Len(Tail(s)) : Tail(s)[i] = s[i + 1]
  BY HeadTailProperties, EmptySeq
<1>2. CASE Tail(s) # <<>>
  <2>1. Len(Tail(s)) \in Nat \ {0}
    BY <1>1, <1>2, EmptySeq
  <2>2. Len(Tail(s)) \in 1 .. Len(Tail(s)) /\ Len(Tail(s)) + 1 = Len(s)
    BY <1>1, <2>1
  <2> QED
    BY <1>1, <1>2, <2>2
<1>3. CASE Tail(s) = <<>>
  <2>1. Len(Tail(s)) = 0
    BY <1>3, EmptySeq
  <2>2. Len(s) = 1
    BY <1>1, <2>1
  <2> QED
    BY <1>1, <1>3, <2>2
<1> QED
  BY <1>2, <1>3

\* The thread stays where it is.
LEMMA PlaceStays ==
  ASSUME Place, UNCHANGED <<thread, mode, plan>> PROVE Place'
  BY DEF Place, There, Reviewed, thread

\* A wait begins, goes on or ends, or a person's answer sends the thread on, and
\* the pipeline stays.
LEMMA PlaceSignals == ASSUME Place, Signals PROVE Place'
<1>1. /\ UNCHANGED <<phases, task, turn, mode, plan>> /\ pc \in {"signals", "paused"}
  BY DEF Signals, SignalAbort, SignalPause, SignalGate, SignalOther, SignalsDone,
     PausedResume, PausedAbort, PausedGate, PausedOther, thread, files, wait
<1>2. \/ pc' = "report" /\ block' = "user_abort" /\ back' = "start"
      \/ pc' \in {"signals", "paused"} /\ UNCHANGED <<block, back>>
      \/ pc = "signals" /\ pc' = back /\ back' = "start" /\ block' = block
  BY DEF Signals, SignalAbort, SignalPause, SignalGate, SignalOther, SignalsDone,
     PausedResume, PausedAbort, PausedGate, PausedOther, thread, EndFor
<1>3. There' = There \/ There' = "report"
  BY <1>1, <1>2 DEF There, Place
<1> QED
  BY <1>1, <1>2, <1>3 DEF Place, Reviewed, TakesCommands

LEMMA PlaceApproval == ASSUME Place, Approval PROVE Place'
<1>1. UNCHANGED <<back, phases, task, turn, mode, plan>> /\ pc \in {"init", "approval"}
  BY DEF Approval, AskApproval, ApprovalApprove, ApprovalRefuse, ApprovalOther, files
<1>2. \/ pc' \in {"approval", "structure"} /\ block' = block
      \/ pc' = "report" /\ block' \in {"user_abort", "user_rejected"}
  BY DEF Approval, AskApproval, ApprovalApprove, ApprovalRefuse, ApprovalOther, EndFor
<1> QED
  BY <1>1, <1>2 DEF Place, There, TakesCommands

LEMMA PlaceConversation == ASSUME Place, Conversation PROVE Place'
<1>1. /\ MaxTurns \in Nat /\ turn \in 0 .. MaxTurns
      /\ UNCHANGED <<mode, task>> /\ plan' = plan
  BY BatchAssumption DEF Place, Conversation, AgentTurn, ConversationFails,
     HumanAnswers, ConversationCloses, ReplyOther, thread, files
<1>2. CASE AgentTurn
  <2>1. turn' \in 0 .. MaxTurns
    BY <1>1, <1>2 DEF AgentTurn
  <2> QED
    BY <1>1, <1>2, <2>1 DEF AgentTurn, Place, There, TakesCommands
<1>3. CASE ConversationFails \/ HumanAnswers
  BY <1>1, <1>3 DEF ConversationFails, HumanAnswers, Place, There, TakesCommands, EndFor
<1>4. CASE ConversationCloses
  <2>1. pc = "reply" /\ Place /\ phases \in Seq(Phase) /\ phases # <<>>
        /\ Head(phases) = "grill" /\ phases[Len(phases)] # "grill"
    BY <1>4 DEF ConversationCloses, Place, There
  <2>2. /\ Tail(phases) \in Seq(Phase) /\ Tail(phases) # <<>>
        /\ Tail(phases)[Len(Tail(phases))] # "grill"
    BY <2>1, TailEndsAlike
  <2>3. turn' = 0 /\ 0 \in 0 .. MaxTurns
    BY <1>1, <1>4 DEF ConversationCloses
  <2>4. CASE phases' = Tail(phases) /\ CheckSignals("init") /\ UNCHANGED block
    BY <1>1, <2>1, <2>2, <2>3, <2>4 DEF Place, There, TakesCommands, CheckSignals
  <2>5. CASE EndFor("phase") /\ UNCHANGED <<back, phases, wait>>
    BY <1>1, <2>1, <2>3, <2>5 DEF Place, There, TakesCommands, EndFor
  <2> QED
    BY <1>4, <2>4, <2>5 DEF ConversationCloses
<1>5. CASE ReplyOther
  BY <1>1, <1>5, PlaceStays DEF ReplyOther
<1> QED
  BY <1>2, <1>3, <1>4, <1>5 DEF Conversation

\* A task is decided and the loop goes on, or the thread goes on with it, or the
\* mission is over: nothing is left to go through.
LEMMA PlaceMarks ==
  ASSUME Place, NEW state, MarkTask(state), UNCHANGED <<mode, plan>>
  PROVE  Place'
  BY DEF Place, MarkTask, CheckSignals, There, TakesCommands

LEMMA PlaceMoves ==
  ASSUME Place, UNCHANGED <<back, phases, task, turn, block>>,
         pc' \in {"verdict", "rework", "accepted", "manual", "review",
                  "review_paused", "over"}
  PROVE  Place'
  BY DEF Place, There, TakesCommands

LEMMA PlaceReviewing == ASSUME Place, Reviewing PROVE Place'
<1>1. UNCHANGED <<mode, plan>>
  BY DEF Reviewing, Judge, Rework, ReviewGateMode, ReviewApprove, ReviewReject,
     ReviewAbort, ReviewRetry, ReviewPause, ReviewOther, ReviewPaused, files
<1>2. CASE Judge \/ ReviewApprove \/ ReviewPause
  BY <1>2, PlaceMoves DEF Judge, ReviewApprove, ReviewPause
<1>3. CASE ReviewPaused
  BY <1>3, PlaceMoves DEF ReviewPaused
<1>4. CASE Rework
  BY <1>1, <1>4, PlaceMoves, PlaceMarks DEF Rework
<1>5. CASE ReviewGateMode \/ ReviewOther
  BY <1>1, <1>5, PlaceStays DEF ReviewGateMode, ReviewOther
<1>6. CASE ReviewReject
  BY <1>1, <1>6, PlaceMarks DEF ReviewReject
<1>7. CASE ReviewAbort
  BY <1>1, <1>7 DEF ReviewAbort, EndFor, Place, There, TakesCommands
<1>8. CASE ReviewRetry
  <2>1. CASE /\ pc' \in {"accepted", "verdict", "review"}
             /\ UNCHANGED <<back, phases, task, turn, wait, block, status>>
    BY <2>1, PlaceMoves
  <2>2. CASE MarkTask("failed") /\ UNCHANGED audit
    BY <1>1, <2>2, PlaceMarks
  <2> QED
    BY <1>8, <2>1, <2>2 DEF ReviewRetry
<1> QED
  BY <1>2, <1>3, <1>4, <1>5, <1>6, <1>7, <1>8 DEF Reviewing

LEMMA PlaceTasks == ASSUME Place, Tasks PROVE Place'
<1>1. UNCHANGED <<mode, plan>>
  BY DEF Tasks, TakeTask, BlockUnrunnable, TaskPhaseDone, TaskPhaseFails, Accept,
     Unverified
<1>2. ASSUME NEW t \in Task, TakeTask(t) PROVE Place'
  <2>1. /\ task' = t /\ phases' = TaskPipeline(t) /\ pc' = "signals" /\ back' = "phase"
        /\ UNCHANGED <<turn, block>>
    BY <1>2 DEF TakeTask, CheckSignals
  <2>2. /\ phases' \in Seq(Phase) /\ phases' # <<>>
        /\ Reviewed(t) => phases'[Len(phases')] = "review"
    BY <2>1, TaskPipelines
  <2>3. Reviewed(task)' <=> Reviewed(t)
    BY <1>1, <2>1 DEF Reviewed
  <2> QED
    BY <2>1, <2>2, <2>3 DEF Place, There, TakesCommands
<1>3. CASE BlockUnrunnable
  BY <1>1, <1>3 DEF BlockUnrunnable, EndFor, Place, There, TakesCommands
<1>4. CASE TaskPhaseDone
  <2>1. /\ phases \in Seq(Phase) /\ phases # <<>> /\ phases' = Tail(phases)
        /\ UNCHANGED <<task, turn, block>>
        /\ Reviewed(task) => phases[Len(phases)] = "review"
    BY <1>4 DEF TaskPhaseDone, Place, There
  <2>2. /\ phases' \in Seq(Phase)
        /\ phases' # <<>> => phases'[Len(phases')] = phases[Len(phases)]
    BY <2>1, TailEndsAlike
  <2>3. Reviewed(task)' <=> Reviewed(task)
    BY <1>1, <2>1 DEF Reviewed
  <2>4. CASE phases' # <<>>
    <3>1. pc' = "signals" /\ back' = "phase"
      BY <1>4, <2>1, <2>4 DEF TaskPhaseDone, CheckSignals
    <3> QED
      BY <2>1, <2>2, <2>3, <2>4, <3>1 DEF Place, There, TakesCommands
  <2>5. CASE phases' = <<>>
    <3>1. pc' \in {"verdict", "accepted"} /\ back' = back
      BY <1>4, <2>1, <2>5 DEF TaskPhaseDone
    <3> QED
      BY <2>1, <2>2, <3>1 DEF Place, There, TakesCommands
  <2> QED
    BY <2>4, <2>5
<1>5. CASE TaskPhaseFails
  BY <1>1, <1>5, PlaceMarks DEF TaskPhaseFails
<1>6. CASE Accept
  BY <1>1, <1>6, PlaceMarks DEF Accept
<1>7. CASE Unverified
  BY <1>1, <1>7, PlaceMarks DEF Unverified
<1> QED
  BY <1>2, <1>3, <1>4, <1>5, <1>6, <1>7 DEF Tasks

LEMMA PlaceInitPhase == ASSUME Place, RunInitPhase PROVE Place'
<1>1. /\ phases \in Seq(Phase) /\ phases # <<>> /\ phases[Len(phases)] # "grill"
      /\ UNCHANGED <<task, mode>>
  BY DEF RunInitPhase, Place, There
<1>2. /\ Tail(phases) \in Seq(Phase)
      /\ Tail(phases) # <<>> => Tail(phases)[Len(Tail(phases))] # "grill"
  BY <1>1, TailEndsAlike
<1>3. CASE Head(phases) = "grill"
  <2>1. pc' = "grill" /\ turn' = 0 /\ UNCHANGED <<back, phases, block>>
    BY <1>3 DEF RunInitPhase
  <2>2. 0 \in 0 .. MaxTurns
    BY BatchAssumption
  <2> QED
    BY <1>1, <1>3, <2>1, <2>2 DEF Place, There, TakesCommands
<1>4. CASE InitPhaseDone(Head(phases)) /\ UNCHANGED turn
  <2>1. /\ phases' = Tail(phases) /\ pc' = "signals" /\ block' = block
        /\ back' = IF Tail(phases) = <<>> THEN "load" ELSE "init"
    BY <1>4 DEF InitPhaseDone, CheckSignals
  <2> QED
    BY <1>1, <1>2, <1>4, <2>1 DEF Place, There, TakesCommands
<1>5. CASE InitPhaseBlocked(Head(phases)) /\ UNCHANGED turn
  <2>1. /\ pc' = "report" /\ block' \in {"phase", "structure"}
        /\ UNCHANGED <<back, phases>>
    BY <1>5 DEF InitPhaseBlocked, EndFor
  <2> QED
    BY <1>1, <1>5, <2>1 DEF Place, There, TakesCommands
<1> QED
  BY <1>3, <1>4, <1>5 DEF RunInitPhase

LEMMA PlaceThread == ASSUME Place, Start \/ StartFails \/ Load \/ Report PROVE Place'
<1>1. CASE Start
  <2>1. UNCHANGED <<back, task, turn, block>>
    BY <1>1 DEF Start
  <2>2. CASE pc' = "load" /\ UNCHANGED phases
    BY <2>1, <2>2 DEF Place, There, TakesCommands
  <2>3. CASE /\ phases' = InitPipeline
             /\ pc' = IF InitPipeline = <<>> THEN "load" ELSE "init"
    <3>1. /\ InitPipeline \in Seq(Phase)
          /\ InitPipeline # <<>> => InitPipeline[Len(InitPipeline)] # "grill"
      BY InitPipelines
    <3> HIDE DEF InitPipeline
    <3> QED
      BY <2>1, <2>3, <3>1 DEF Place, There, TakesCommands
  <2> QED
    BY <1>1, <2>2, <2>3 DEF Start
<1>2. CASE StartFails \/ Report
  BY <1>2, PlaceMoves DEF StartFails, Report
<1>3. CASE Load
  <2>1. /\ UNCHANGED <<phases, task, turn>>
        /\ \/ pc' = "report" /\ block' \in {"none", "structure"} /\ back' = back
           \/ pc' = "signals" /\ back' = "loop" /\ block' = block
    BY <1>3 DEF Load, EndFor, CheckSignals
  <2> QED
    BY <2>1 DEF Place, There, TakesCommands
<1> QED
  BY <1>1, <1>2, <1>3

LEMMA PlaceNext == ASSUME Place, [Next]_vars PROVE Place'
<1>1. CASE Thread
  BY <1>1, PlaceSignals, PlaceApproval, PlaceConversation, PlaceReviewing,
     PlaceTasks, PlaceInitPhase, PlaceThread DEF Thread
<1>2. CASE Listener \/ Post \/ PublishLocally \/ EditMap \/ UNCHANGED vars
  <2>1. UNCHANGED <<thread, mode, plan>>
    BY <1>2 DEF Listener, TakeUpdate, DeliverCommand, AnswerUpdate, PollFails,
       Post, PublishLocally, EditMap, vars, files
  <2> QED
    BY <2>1, PlaceStays
<1>3. CASE Restart
  <2>1. /\ pc' = "start" /\ back' = "start" /\ phases' = <<>> /\ task' = 0
        /\ turn' = 0 /\ block' = "none"
    BY <1>3 DEF Restart
  <2>2. 0 \in 0 .. MaxTurns /\ <<>> \in Seq(Phase)
    BY BatchAssumption
  <2> QED
    BY <2>1, <2>2 DEF Place, There, TakesCommands
<1> QED
  BY <1>1, <1>2, <1>3 DEF Next

-----------------------------------------------------------------------------
(* The files, and the verdict the thread acts on. *)

LEMMA FilesStay ==
  ASSUME Files, UNCHANGED <<mode, design, files>> PROVE Files'
  BY DEF Files, design, files

LEMMA FilesThread == ASSUME BatchInv, Thread PROVE Files'
<1>1. Files
  BY DEF BatchInv
<1>2. CASE Signals
  <2>1. UNCHANGED <<mode, design, plan, status, audit>> /\ gate' \in {gate, "manual", "auto"}
    BY <1>2 DEF Signals, SignalAbort, SignalPause, SignalGate, SignalOther,
       SignalsDone, PausedResume, PausedAbort, PausedGate, PausedOther, files, GateOf
  <2> QED
    BY <1>1, <2>1 DEF Files, design
<1>3. CASE Approval
  <2>1. UNCHANGED <<mode, files, map>> /\ shown' \in {shown, map, 0}
    BY <1>3 DEF Approval, AskApproval, ApprovalApprove, ApprovalRefuse,
       ApprovalOther, design
  <2> QED
    BY <1>1, <2>1 DEF Files, files
<1>4. CASE Conversation
  <2>1. UNCHANGED <<mode, files>> /\ (UNCHANGED design \/ MapMayChange)
    BY <1>4 DEF Conversation, AgentTurn, ConversationFails, HumanAnswers,
       ConversationCloses, ReplyOther
  <2>2. map' \in map .. MaxMap /\ map \in Nat /\ MaxMap \in Nat => map' \in Nat /\ map <= map'
    OBVIOUS
  <2> QED
    BY <1>1, <2>1, <2>2, BatchAssumption DEF Files, files, design, MapMayChange
<1>5. CASE Reviewing
  <2>1. /\ UNCHANGED <<mode, design, plan>> /\ gate' \in {gate, "manual", "auto"}
        /\ audit' = audit \/ audit' \in Reviews
        /\ status' = status \/ status' = [status EXCEPT ![task] = "failed"]
    BY <1>5 DEF Reviewing, Judge, Rework, ReviewGateMode, ReviewApprove, ReviewReject,
       ReviewAbort, ReviewRetry, ReviewPause, ReviewOther, ReviewPaused, files,
       MarkTask, GateOf
  <2> QED
    BY <1>1, <2>1 DEF Files, design
<1>6. CASE Tasks
  <2>1. /\ UNCHANGED <<mode, design, plan, gate>>
        /\ audit' \in {audit, NoAudit} \/ audit' \in Reviews
    BY <1>6 DEF Tasks, TakeTask, BlockUnrunnable, TaskPhaseDone, TaskPhaseFails,
       Accept, Unverified
  <2>2. \/ status' = status
        \/ \E state \in {"completed", "failed"} : status' = [status EXCEPT ![task] = state]
        \/ status' = [t \in Task |-> IF status[t] = "pending" THEN "blocked" ELSE status[t]]
    BY <1>6 DEF Tasks, TakeTask, BlockUnrunnable, TaskPhaseDone, TaskPhaseFails,
       Accept, Unverified, MarkTask
  <2>3. status' \in [Task -> {"pending", "completed", "failed", "blocked"}]
    BY <1>1, <2>2 DEF Files
  <2> QED
    BY <1>1, <2>1, <2>3 DEF Files, design
<1>7. CASE RunInitPhase
  <2>1. UNCHANGED <<mode, gate, audit>> /\ (UNCHANGED design \/ MapMayChange)
    BY <1>7 DEF RunInitPhase, InitPhaseDone, InitPhaseBlocked
  <2>2. plan' \in Plans \cup {NoPlan} /\ (status' = status \/ status' = AllPending)
    BY <1>1, <1>7 DEF RunInitPhase, InitPhaseDone, InitPhaseBlocked, Files
  <2>3. status' \in [Task -> {"pending", "completed", "failed", "blocked"}]
    BY <1>1, <2>2 DEF Files, AllPending
  <2>4. map' \in map .. MaxMap /\ map \in Nat /\ MaxMap \in Nat => map' \in Nat /\ map <= map'
    OBVIOUS
  <2> QED
    BY <1>1, <2>1, <2>2, <2>3, <2>4, BatchAssumption DEF Files, design, MapMayChange
<1>8. CASE Start \/ StartFails \/ Load \/ Report
  BY <1>1, <1>8, FilesStay DEF Start, StartFails, Load, Report
<1> QED
  BY <1>2, <1>3, <1>4, <1>5, <1>6, <1>7, <1>8 DEF Thread

LEMMA FilesNext == ASSUME BatchInv, [Next]_vars PROVE Files'
<1>1. Files /\ MaxMap \in Nat
  BY BatchAssumption DEF BatchInv
<1>2. CASE EditMap
  BY <1>1, <1>2 DEF EditMap, Files, files
<1>3. CASE Restart
  BY <1>1, <1>3 DEF Restart, Files, design
<1>4. CASE Listener \/ Post \/ PublishLocally \/ UNCHANGED vars
  BY <1>1, <1>4, FilesStay DEF Listener, TakeUpdate, DeliverCommand, AnswerUpdate,
     PollFails, Post, PublishLocally, vars
<1> QED
  BY <1>2, <1>3, <1>4, FilesThread DEF Next

\* What passes the gate agrees with its evidence.
LEMMA PassedAgrees ==
  ASSUME NEW obliged, NEW review, GatePasses(obliged, review) PROVE ~EvidenceError(review)
  BY DEF GatePasses

LEMMA AuditedStays ==
  ASSUME Audited, UNCHANGED audit, pc' = pc \/ pc' \notin {"verdict", "rework"}
  PROVE  Audited'
  BY DEF Audited, EvidenceError

LEMMA AuditedReviewing == ASSUME Audited, Reviewing PROVE Audited'
<1>1. CASE Judge
  <2>1. audit' = audit /\ pc' # "verdict"
        /\ (pc' = "rework" => audit.verdict = "MINOR_CHANGES")
    BY <1>1 DEF Judge, files
  <2> QED
    BY <2>1 DEF Audited
<1>2. CASE ReviewRetry
  <2>1. CASE MarkTask("failed") /\ UNCHANGED audit
    BY <2>1, AuditedStays DEF MarkTask, CheckSignals
  <2>2. CASE /\ \E review \in Reviews : GatePasses(plan[task].obliged, review)
                                        /\ audit' = review
             /\ pc' \in {"accepted", "verdict", "review"}
    BY <2>2, PassedAgrees DEF Audited, EvidenceError
  <2> QED
    BY <1>2, <2>1, <2>2 DEF ReviewRetry
<1>3. CASE \/ Rework \/ ReviewGateMode \/ ReviewApprove \/ ReviewReject \/ ReviewAbort
           \/ ReviewPause \/ ReviewOther \/ ReviewPaused
  <2>1. audit' = audit /\ (pc' = pc \/ pc' \notin {"verdict", "rework"})
    BY <1>3 DEF Rework, ReviewGateMode, ReviewApprove, ReviewReject, ReviewAbort,
       ReviewPause, ReviewOther, ReviewPaused, MarkTask, CheckSignals, EndFor,
       thread, files
  <2> QED
    BY <2>1, AuditedStays
<1> QED
  BY <1>1, <1>2, <1>3 DEF Reviewing

\* A review that is the last phase has passed the gate.
LEMMA AuditedTasks == ASSUME Place, Audited, Tasks PROVE Audited'
<1>1. CASE TaskPhaseDone
  <2>1. /\ phases \in Seq(Phase) /\ phases # <<>>
        /\ Reviewed(task) => phases[Len(phases)] = "review"
    BY <1>1 DEF TaskPhaseDone, Place, There
  <2>2. CASE Tail(phases) = <<>> /\ Reviewed(task)
    <3>1. Head(phases) = "review"
      BY <2>1, <2>2, TailEndsAlike
    <3>2. ~EvidenceError(audit')
      BY <1>1, <3>1, PassedAgrees DEF TaskPhaseDone
    <3>3. pc' = "verdict"
      BY <1>1, <2>2 DEF TaskPhaseDone
    <3> QED
      BY <3>2, <3>3 DEF Audited, EvidenceError
  <2>3. CASE ~(Tail(phases) = <<>> /\ Reviewed(task))
    <3>1. pc' \in {"signals", "accepted"}
      BY <1>1, <2>3 DEF TaskPhaseDone, CheckSignals
    <3> QED
      BY <3>1 DEF Audited
  <2> QED
    BY <2>2, <2>3
<1>2. CASE (\E t \in Task : TakeTask(t)) \/ BlockUnrunnable \/ TaskPhaseFails
           \/ Accept \/ Unverified
  <2>1. pc' \in {"signals", "report"}
    BY <1>2 DEF TakeTask, BlockUnrunnable, TaskPhaseFails, Accept, Unverified,
       MarkTask, CheckSignals, EndFor
  <2> QED
    BY <2>1 DEF Audited
<1> QED
  BY <1>1, <1>2 DEF Tasks

LEMMA AuditedNext == ASSUME Place, Audited, [Next]_vars PROVE Audited'
<1>1. CASE \/ Signals \/ Approval \/ Conversation \/ RunInitPhase
           \/ Start \/ StartFails \/ Load \/ Report
  <2>1. CASE Signals
    BY <2>1 DEF Signals, SignalAbort, SignalPause, SignalGate, SignalOther,
       SignalsDone, PausedResume, PausedAbort, PausedGate, PausedOther, EndFor,
       thread, Place, Audited
  <2>2. CASE Approval
    BY <2>2 DEF Approval, AskApproval, ApprovalApprove, ApprovalRefuse,
       ApprovalOther, EndFor, Audited
  <2>3. CASE Conversation
    BY <2>3 DEF Conversation, AgentTurn, ConversationFails, HumanAnswers,
       ConversationCloses, ReplyOther, EndFor, CheckSignals, thread, Audited
  <2>4. CASE RunInitPhase
    BY <2>4 DEF RunInitPhase, InitPhaseDone, InitPhaseBlocked, EndFor,
       CheckSignals, Audited
  <2>5. CASE Start \/ StartFails \/ Load \/ Report
    BY <2>5 DEF Start, StartFails, Load, Report, EndFor, CheckSignals, Audited
  <2> QED
    BY <1>1, <2>1, <2>2, <2>3, <2>4, <2>5
<1>2. CASE Listener \/ Post \/ PublishLocally \/ EditMap \/ UNCHANGED vars
  <2>1. audit' = audit /\ pc' = pc
    BY <1>2 DEF Listener, TakeUpdate, DeliverCommand, AnswerUpdate, PollFails, Post,
       PublishLocally, EditMap, vars, thread, files
  <2> QED
    BY <2>1, AuditedStays
<1>3. CASE Restart
  BY <1>3 DEF Restart, Audited
<1> QED
  BY <1>1, <1>2, <1>3, AuditedReviewing, AuditedTasks DEF Next, Thread

-----------------------------------------------------------------------------
(* The listener. *)

LEMMA DeliveredIsFinite ==
  ASSUME Listening
  PROVE  /\ Len(updates) \in Nat /\ IsFiniteSet(delivered)
         /\ Cardinality(delivered) \in Nat
<1>1. Len(updates) \in Nat
  BY LenProperties DEF Listening
<1>2. IsFiniteSet(Updates) /\ delivered \in SUBSET Updates
  <2>1. IsFiniteSet(1 .. Len(updates))
    BY <1>1, FS_Interval
  <2> QED
    BY <2>1 DEF Listening, Updates
<1>3. IsFiniteSet(delivered)
  BY <1>2, FS_Subset
<1> QED
  BY <1>1, <1>3, FS_CardinalityType

\* The thread goes on beside the listener.
LEMMA ListeningStays ==
  ASSUME Listening, UNCHANGED <<telegram, life>>, sent' = sent \/ sent' = sent + 1,
         pc' = pc \/ (Alive /\ pc' # "start") \/ pc' = "over"
  PROVE  Listening'
<1>1. /\ updates' = updates /\ offset' = offset /\ hand' = hand /\ life' = life
      /\ delivered' = delivered /\ (Alive' => Alive)
      /\ (pc' = "start" => pc = "start")
  BY DEF telegram, Alive
<1>2. Cardinality(delivered') <= sent' /\ sent' \in Nat
  BY <1>1, DeliveredIsFinite DEF Listening
<1> QED
  BY <1>1, <1>2 DEF Listening, Updates

LEMMA ListeningThread == ASSUME Place, Listening, Thread PROVE Listening'
<1>1. CASE Start
  <2>1. /\ offset' = Len(updates) + 1 /\ UNCHANGED <<updates, hand, delivered, life, sent>>
        /\ pc = "start" /\ pc' \in {"load", "init"}
    BY <1>1 DEF Start, NextOffset, commands
  <2>2. hand = 0 /\ Len(updates) \in Nat /\ delivered \subseteq 1 .. Len(updates)
    BY <2>1, DeliveredIsFinite DEF Listening, Updates
  <2>3. /\ offset' \in 1 .. Len(updates) + 1
        /\ \A u \in delivered : u < offset'
        /\ \A u \in offset' .. Len(updates) : FALSE
    BY <2>1, <2>2
  <2> QED
    BY <2>1, <2>2, <2>3 DEF Listening, Updates
<1>2. CASE StartFails
  BY <1>2, ListeningStays DEF StartFails, commands
<1>3. CASE Signals
  <2>1. /\ UNCHANGED <<telegram, life, sent>> /\ pc \in {"signals", "paused"}
        /\ pc' # "start"
    BY <1>3 DEF Signals, SignalAbort, SignalPause, SignalGate, SignalOther,
       SignalsDone, PausedResume, PausedAbort, PausedGate, PausedOther,
       Take, TakeFrom, TakeAside, PutBack, EndFor, thread, Place
  <2> QED
    BY <2>1, ListeningStays DEF Alive
<1>4. CASE Approval
  <2>1. /\ UNCHANGED <<telegram, life, sent>> /\ pc \in {"init", "approval"} /\ pc' # "start"
    BY <1>4 DEF Approval, AskApproval, ApprovalApprove, ApprovalRefuse, ApprovalOther,
       Take, TakeFrom, TakeAside, EndFor, commands
  <2> QED
    BY <2>1, ListeningStays DEF Alive
<1>5. CASE Conversation
  <2>1. /\ UNCHANGED <<telegram, life, sent>> /\ pc \in {"grill", "reply"} /\ pc' # "start"
    BY <1>5 DEF Conversation, AgentTurn, ConversationFails, HumanAnswers,
       ConversationCloses, ReplyOther, Take, TakeFrom, EndFor, CheckSignals,
       commands, thread
  <2> QED
    BY <2>1, ListeningStays DEF Alive
<1>6. CASE Reviewing
  <2>1. /\ UNCHANGED <<telegram, life, sent>> /\ pc' # "start"
        /\ pc \in {"verdict", "rework", "manual", "review", "review_paused"}
    BY <1>6 DEF Reviewing, Judge, Rework, ReviewGateMode, ReviewApprove, ReviewReject,
       ReviewAbort, ReviewRetry, ReviewPause, ReviewOther, ReviewPaused, Take, TakeFrom,
       MarkTask, EndFor, CheckSignals, commands, thread
  <2> QED
    BY <2>1, ListeningStays DEF Alive
<1>7. CASE Tasks \/ RunInitPhase \/ Load \/ Report
  <2>1. UNCHANGED <<telegram, life, sent>>
    BY <1>7 DEF Tasks, TakeTask, BlockUnrunnable, TaskPhaseDone, TaskPhaseFails,
       Accept, Unverified, RunInitPhase, Load, Report, commands
  <2>2. pc \in {"init", "structure", "load", "loop", "phase", "accepted", "report"}
    BY <1>7 DEF Tasks, TakeTask, BlockUnrunnable, TaskPhaseDone, TaskPhaseFails,
       Accept, Unverified, RunInitPhase, Load, Report
  <2>3. pc' # "start"
    BY <1>7 DEF Tasks, TakeTask, BlockUnrunnable, TaskPhaseDone, TaskPhaseFails,
       Accept, Unverified, RunInitPhase, InitPhaseDone, InitPhaseBlocked, Load,
       Report, MarkTask, EndFor, CheckSignals
  <2> QED
    BY <2>1, <2>2, <2>3, ListeningStays DEF Alive
<1> QED
  BY <1>1, <1>2, <1>3, <1>4, <1>5, <1>6, <1>7 DEF Thread

LEMMA ListeningListener == ASSUME Listening, Listener PROVE Listening'
<1>1. /\ Len(updates) \in Nat /\ offset \in Nat /\ hand \in Nat
      /\ IsFiniteSet(delivered) /\ Cardinality(delivered) \in Nat
  BY DeliveredIsFinite DEF Listening
<1>2. CASE TakeUpdate
  <2>1. /\ hand' = offset /\ offset' = offset + 1 /\ offset <= Len(updates) /\ Alive
        /\ UNCHANGED <<updates, delivered, life, sent, pc>>
    BY <1>2 DEF TakeUpdate, commands, thread
  <2>2. offset \notin delivered /\ updates[offset].life = life
    BY <1>1, <2>1 DEF Listening
  <2>3. /\ offset' \in 1 .. Len(updates) + 1 /\ hand' \in 0 .. Len(updates)
        /\ hand' = offset' - 1 /\ \A u \in delivered : u < offset'
    <3>1. delivered \subseteq 1 .. Len(updates) /\ \A u \in delivered : u < offset
      BY <2>1 DEF Listening, Updates
    <3> QED
      BY <1>1, <2>1, <3>1 DEF Listening
  <2>4. \A u \in offset' .. Len(updates) : updates[u].life = life
    <3>1. offset' .. Len(updates) \subseteq offset .. Len(updates)
      BY <1>1, <2>1
    <3> QED
      BY <2>1, <3>1 DEF Listening
  <2>5. pc # "start"
    BY <2>1 DEF Alive
  <2> QED
    BY <2>1, <2>2, <2>3, <2>4, <2>5 DEF Listening, Updates
<1>3. CASE DeliverCommand
  <2>1. /\ hand' = 0 /\ hand # 0 /\ sent' = sent + 1 /\ Alive
        /\ delivered' = delivered \cup {hand}
        /\ UNCHANGED <<updates, offset, life, pc>>
    BY <1>3 DEF DeliverCommand, thread
  <2>2. Cardinality(delivered') <= Cardinality(delivered) + 1
        /\ Cardinality(delivered') \in Nat
    <3>1. Cardinality(delivered \cup {hand}) =
            IF hand \in delivered THEN Cardinality(delivered) ELSE Cardinality(delivered) + 1
      BY <1>1, FS_AddElement
    <3> QED
      BY <1>1, <2>1, <3>1
  <2>3. Cardinality(delivered') <= sent' /\ sent' \in Nat
    BY <1>1, <2>1, <2>2 DEF Listening
  <2>4. hand \in 1 .. Len(updates) /\ hand < offset
    BY <1>1, <2>1 DEF Listening
  <2>5. delivered' \subseteq 1 .. Len(updates) /\ \A u \in delivered' : u < offset
    BY <2>1, <2>4 DEF Listening, Updates
  <2>6. hand' \in 0 .. Len(updates)
    BY <1>1, <2>1
  <2> QED
    BY <2>1, <2>3, <2>5, <2>6 DEF Listening, Updates
<1>4. CASE AnswerUpdate
  <2>1. hand' = 0 /\ UNCHANGED <<updates, offset, delivered, life, sent, pc>>
    BY <1>4 DEF AnswerUpdate, commands, thread
  <2>2. hand' \in 0 .. Len(updates)
    BY <1>1, <2>1
  <2> QED
    BY <2>1, <2>2 DEF Listening, Updates, Alive
<1>5. CASE PollFails
  BY <1>5 DEF PollFails, commands, thread, Listening, Updates, Alive
<1> QED
  BY <1>2, <1>3, <1>4, <1>5 DEF Listener

\* A post is the last on the server, and of this life.
LEMMA ListeningPost == ASSUME Listening, Post PROVE Listening'
<1>1. PICK what \in Posted : updates' = Append(updates, [what |-> what, life |-> life])
  BY DEF Post
<1> DEFINE post == [what |-> what, life |-> life]
           Update == [what : Posted, life : Nat]
<1>2. post \in Update /\ post.life = life /\ updates \in Seq(Update)
  BY DEF Listening
<1>3. /\ UNCHANGED <<offset, hand, delivered, life, sent, pc>>
      /\ updates' = Append(updates, post)
  BY <1>1 DEF Post, unread, commands, thread
<1> HIDE DEF post, Update
<1>4. /\ updates' \in Seq(Update) /\ Len(updates') = Len(updates) + 1
      /\ \A u \in 1 .. Len(updates) : updates'[u] = updates[u]
      /\ updates'[Len(updates) + 1] = post
  BY <1>2, <1>3, AppendProperties
<1>5. Len(updates) \in Nat /\ offset \in 1 .. Len(updates) + 1 /\ hand \in 0 .. Len(updates)
      /\ delivered \subseteq 1 .. Len(updates)
  BY DeliveredIsFinite DEF Listening, Updates
<1>6. /\ offset' \in 1 .. Len(updates') + 1 /\ hand' \in 0 .. Len(updates')
      /\ delivered' \subseteq 1 .. Len(updates')
  BY <1>3, <1>4, <1>5
<1>7. ASSUME Alive, NEW u \in offset .. Len(updates') PROVE updates'[u].life = life
  <2>1. CASE u = Len(updates) + 1
    BY <1>2, <1>4, <2>1
  <2>2. CASE u # Len(updates) + 1
    <3>1. u \in offset .. Len(updates) /\ u \in 1 .. Len(updates)
      BY <1>4, <1>5, <2>2
    <3> QED
      BY <1>4, <1>7, <3>1 DEF Listening
  <2> QED
    BY <2>1, <2>2
<1>8. hand # 0 => updates'[hand] = updates[hand]
  BY <1>4, <1>5
<1>9. updates' \in Seq([what : Posted, life : Nat])
  BY <1>4 DEF Update
<1> QED
  BY <1>3, <1>6, <1>7, <1>8, <1>9 DEF Listening, Updates, Alive

LEMMA ListeningRestart == ASSUME Listening, Restart PROVE Listening'
<1>1. /\ pc' = "start" /\ life' = life + 1 /\ offset' = 1 /\ hand' = 0
      /\ UNCHANGED <<updates, delivered, sent>> /\ Events < MaxEvents
  BY DEF Restart
<1>2. /\ Len(updates) \in Nat /\ Cardinality(delivered) \in Nat /\ MaxEvents \in Nat
      /\ Cardinality(delivered) <= sent /\ sent \in Nat /\ life \in 1 .. MaxEvents + 1
  BY DeliveredIsFinite, BatchAssumption DEF Listening
<1>3. life' \in 1 .. MaxEvents + 1
  BY <1>1, <1>2 DEF Events
<1>4. offset' \in 1 .. Len(updates) + 1 /\ hand' \in 0 .. Len(updates)
  BY <1>1, <1>2
<1> QED
  BY <1>1, <1>3, <1>4 DEF Listening, Updates, Alive

LEMMA ListeningNext == ASSUME Place, Listening, [Next]_vars PROVE Listening'
<1>1. CASE PublishLocally \/ EditMap \/ UNCHANGED vars
  <2>1. UNCHANGED <<telegram, life, pc>> /\ (sent' = sent \/ sent' = sent + 1)
    BY <1>1 DEF PublishLocally, EditMap, vars, commands, thread
  <2> QED
    BY <2>1, ListeningStays
<1> QED
  BY <1>1, ListeningThread, ListeningListener, ListeningPost, ListeningRestart DEF Next

-----------------------------------------------------------------------------
(* The whole mission. *)

LEMMA BatchInit == Init => BatchInv
<1> SUFFICES ASSUME Init PROVE BatchInv
  OBVIOUS
<1>1. /\ bus = EmptyBus /\ held = <<>> /\ paused = <<>> /\ sent = 0 /\ gone = {}
      /\ aborted = FALSE /\ pc = "start" /\ back = "start" /\ phases = <<>> /\ task = 0
      /\ turn = 0 /\ block = "none"
  BY DEF Init, Fresh
<1>2. /\ {MaxCommands, MaxTurns, MaxMap, MaxEvents} \subseteq Nat
      /\ <<>> \in Seq(Command) /\ <<>> \in Seq(Phase) /\ <<>> \in Seq([what : Posted, life : Nat])
  BY BatchAssumption, MaxCommandsAssumption
<1>3. Queues
  <2>1. bus \in Bus /\ Waiting(bus) = <<>> \o <<>>
    BY <1>1, <1>2 DEF EmptyBus, Bus, Waiting
  <2>2. <<>> \o <<>> = <<>>
    BY <1>2, ConcatEmptySeq
  <2>3. Len(Kept) = 0
    BY <1>1, <2>1, <2>2, EmptySeq DEF Kept
  <2>4. Ascending(Kept) /\ Ids(Kept) = {}
    BY <2>3 DEF Ascending, Ids
  <2>5. sent \in 0 .. MaxCommands /\ (1 .. sent) \ gone = {}
    BY <1>1, <1>2
  <2> QED
    BY <1>1, <1>2, <2>1, <2>4, <2>5 DEF Queues
<1>4. Place
  BY <1>1, <1>2 DEF Place, There
<1>5. Files
  <2>1. plan \in Plans \cup {NoPlan}
    BY DEF Init
  <2> QED
    BY <1>2, <2>1 DEF Init, Files, AllPending
<1>6. Audited
  BY <1>1 DEF Audited
<1>7. Listening
  <2>1. /\ updates = <<>> /\ offset = 1 /\ hand = 0 /\ delivered = {} /\ life = 1
    BY DEF Init, Fresh
  <2>2. Len(updates) = 0 /\ Cardinality(delivered) = 0
    BY <2>1, FS_EmptySet, EmptySeq
  <2> QED
    BY <1>1, <1>2, <2>1, <2>2 DEF Listening, Updates, Alive
<1> QED
  BY <1>3, <1>4, <1>5, <1>6, <1>7 DEF BatchInv

LEMMA BatchNext == BatchInv /\ [Next]_vars => BatchInv'
  BY QueuesNext, PlaceNext, FilesNext, AuditedNext, ListeningNext DEF BatchInv

-----------------------------------------------------------------------------
(* The properties. *)

\* Whatever people say and wherever the mission is killed, the bus, the thread,
\* the files and the listener of a headless mission keep their types.
THEOREM BatchIsTyped == Spec => []TypeOK
<1>1. BatchInv => TypeOK
  BY DEF BatchInv, Queues, Place, Files, Listening, TypeOK, Bus
<1> QED
  BY BatchInit, BatchNext, <1>1, PTL DEF Spec

\* Commands are taken in the order in which they were published, and none is
\* lost between the waits that set them aside (command_bus.defer,
\* check_signals, _wait_resume_or_abort, wait_for_approval, _human_reply).
THEOREM CommandsKeepOrder == Spec => []OrderKept
<1>1. BatchInv => OrderKept
  BY OrderIsOrderKept DEF BatchInv, Queues
<1> QED
  BY BatchInit, BatchNext, <1>1, PTL DEF Spec

\* A reviewed task is accepted on a person's word, or on a verdict that passed the
\* gate: an approval nobody confirms only while the gate is automatic, or as the
\* answer to a person's retry (commit_or_request_human, _review_loop).
THEOREM CompletionIsAccepted == Spec => CompletedIsAccepted
<1> DEFINE Accepted ==
      \A t \in Task : pc' = "accepted" /\ task' = t /\ Reviewed(t) =>
        \/ pc = "accepted"
        \/ pc \in {"manual", "review"} /\ NextIs({"approve"})
        \/ pc = "manual" /\ NextIs({"retry"})
        \/ /\ audit'.verdict = "APPROVED" /\ audit'.clean /\ ~audit'.failures
           /\ gate = "auto" \/ (pc = "review" /\ NextIs({"retry"}))
        \/ audit'.verdict = "MINOR_CHANGES" /\ pc = "rework"
<1>1. ASSUME BatchInv, Next PROVE Accepted
  <2>1. Place /\ Audited /\ gate \in {"auto", "manual"}
    BY <1>1 DEF BatchInv, Files
  <2> SUFFICES ASSUME pc' = "accepted", pc # "accepted", Reviewed(task')
               PROVE  \/ pc \in {"manual", "review"} /\ NextIs({"approve"})
                      \/ pc = "manual" /\ NextIs({"retry"})
                      \/ /\ audit'.verdict = "APPROVED" /\ audit'.clean /\ ~audit'.failures
                         /\ gate = "auto" \/ (pc = "review" /\ NextIs({"retry"}))
                      \/ audit'.verdict = "MINOR_CHANGES" /\ pc = "rework"
    OBVIOUS
  <2>2. Judge \/ Rework \/ ReviewApprove \/ ReviewRetry \/ TaskPhaseDone
    <3>1. CASE Signals
      BY <2>1, <3>1 DEF Signals, SignalAbort, SignalPause, SignalGate, SignalOther,
         SignalsDone, PausedResume, PausedAbort, PausedGate, PausedOther, EndFor,
         thread, Place
    <3>2. CASE Approval \/ Conversation \/ RunInitPhase
      BY <3>2 DEF Approval, AskApproval, ApprovalApprove, ApprovalRefuse,
         ApprovalOther, Conversation, AgentTurn, ConversationFails, HumanAnswers,
         ConversationCloses, ReplyOther, RunInitPhase, InitPhaseDone,
         InitPhaseBlocked, EndFor, CheckSignals, thread
    <3>3. CASE Start \/ StartFails \/ Load \/ Report \/ Restart
      BY <3>3 DEF Start, StartFails, Load, Report, Restart, EndFor, CheckSignals
    <3>4. CASE Listener \/ Post \/ PublishLocally \/ EditMap
      BY <3>4 DEF Listener, TakeUpdate, DeliverCommand, AnswerUpdate, PollFails, Post,
         PublishLocally, EditMap, thread
    <3>5. CASE Tasks
      BY <3>5 DEF Tasks, TakeTask, BlockUnrunnable, TaskPhaseFails, Accept,
         Unverified, MarkTask, EndFor, CheckSignals
    <3>6. CASE Reviewing
      BY <3>6 DEF Reviewing, ReviewGateMode, ReviewReject, ReviewAbort, ReviewPause,
         ReviewOther, ReviewPaused, MarkTask, EndFor, CheckSignals, thread
    <3> QED
      BY <1>1, <3>1, <3>2, <3>3, <3>4, <3>5, <3>6 DEF Next, Thread
  <2>3. CASE Judge
    <3>1. audit' = audit /\ pc = "verdict" /\ audit.verdict = "APPROVED" /\ gate # "manual"
      BY <2>3 DEF Judge, files
    <3> QED
      BY <2>1, <3>1 DEF Audited, EvidenceError
  <2>4. CASE Rework
    <3>1. audit' = audit /\ pc = "rework"
      BY <2>4 DEF Rework
    <3> QED
      BY <2>1, <3>1 DEF Audited
  <2>5. CASE ReviewApprove
    BY <2>5 DEF ReviewApprove
  <2>6. CASE ReviewRetry
    <3>1. pc \in {"manual", "review"} /\ NextIs({"retry"})
      BY <2>6 DEF ReviewRetry
    <3>2. CASE pc = "review"
      <4>1. ~EvidenceError(audit')
        BY <2>6, PassedAgrees DEF ReviewRetry, MarkTask, CheckSignals
      <4>2. audit'.verdict = "APPROVED"
        BY <2>6, <3>2 DEF ReviewRetry, MarkTask, CheckSignals
      <4> QED
        BY <3>1, <3>2, <4>1, <4>2 DEF EvidenceError
    <3> QED
      BY <3>1, <3>2
  <2>7. CASE TaskPhaseDone
    <3>1. pc' = "accepted" => ~Reviewed(task) /\ task' = task
      BY <2>7 DEF TaskPhaseDone, CheckSignals
    <3> QED
      BY <3>1
  <2> QED
    BY <2>2, <2>3, <2>4, <2>5, <2>6, <2>7
<1>2. BatchInv /\ [Next]_vars => [Accepted]_vars
  BY <1>1
<1> QED
  BY BatchInit, BatchNext, <1>2, PTL DEF Spec, CompletedIsAccepted

\* The mission's thread does not handle updates.
LEMMA ThreadLeavesHand == Thread => hand' = hand
<1>1. Start => hand' = hand
  BY DEF Start
<1>2. StartFails \/ RunInitPhase \/ Load \/ Report => UNCHANGED telegram
  BY DEF StartFails, RunInitPhase, Load, Report
<1>3. Signals \/ Approval => UNCHANGED telegram
  BY DEF Signals, SignalAbort, SignalPause, SignalGate, SignalOther, SignalsDone,
     PausedResume, PausedAbort, PausedGate, PausedOther, Approval, AskApproval,
     ApprovalApprove, ApprovalRefuse, ApprovalOther
<1>4. Conversation \/ Tasks => UNCHANGED telegram
  BY DEF Conversation, AgentTurn, ConversationFails, HumanAnswers, ConversationCloses,
     ReplyOther, Tasks, TakeTask, BlockUnrunnable, TaskPhaseDone, TaskPhaseFails,
     Accept, Unverified
<1>5. Reviewing => UNCHANGED telegram
  BY DEF Reviewing, Judge, Rework, ReviewGateMode, ReviewApprove, ReviewReject,
     ReviewAbort, ReviewRetry, ReviewPause, ReviewOther, ReviewPaused
<1> QED
  BY <1>1, <1>2, <1>3, <1>4, <1>5 DEF Thread, telegram

\* Every update whose command is published was posted to this process, and is
\* published for the first time (synchronize_backlog, and the offset that is
\* persisted before an update is handled).
THEOREM UpdatesAreDeliveredOnce == Spec => DeliveredOnce
<1> DEFINE Once ==
      \A u \in Updates : hand = u /\ sent' = sent + 1 /\ hand' = 0 =>
        u \notin delivered /\ updates[u].life = life
<1>1. ASSUME BatchInv, Next PROVE Once
  <2> SUFFICES ASSUME hand \in Updates, sent' = sent + 1, hand' = 0
               PROVE  hand \notin delivered /\ updates[hand].life = life
    OBVIOUS
  <2>1. Listening
    BY <1>1 DEF BatchInv
  <2>2. hand # 0 /\ sent' # sent
    <3>1. Len(updates) \in Nat /\ sent \in Nat
      BY <2>1, DeliveredIsFinite DEF Listening
    <3> QED
      BY <3>1 DEF Updates
  <2>3. ~Thread
    BY <2>2, ThreadLeavesHand
  <2>4. DeliverCommand
    BY <1>1, <2>2, <2>3 DEF Next, Listener, TakeUpdate, AnswerUpdate, PollFails, Post,
       PublishLocally, EditMap, Restart, commands, telegram, unread
  <2> QED
    BY <2>1, <2>2, <2>4 DEF DeliverCommand, Listening
<1>2. BatchInv /\ [Next]_vars => [Once]_vars
  BY <1>1
<1> QED
  BY BatchInit, BatchNext, <1>2, PTL DEF Spec, DeliveredOnce
-----------------------------------------------------------------------------
(* The bus and the waits around it are one mailbox.  One more invariant: no   *)
(* wait sets an ABORT aside.                                                 *)

Tame == {c \in Command : c.kind # "abort"}
Quiet == held \in Seq(Tame) /\ paused \in Seq(Tame)

LEMMA QuietInit == Init => Quiet
  BY DEF Init, Fresh, Quiet

LEMMA QuietStays ==
  ASSUME Quiet, held' \in {held, <<>>}, paused' \in {paused, <<>>}
  PROVE  Quiet'
<1>1. <<>> \in Seq(Tame)
  OBVIOUS
<1>2. held' \in Seq(Tame) /\ paused' \in Seq(Tame)
  BY <1>1 DEF Quiet
<1> QED
  BY <1>2 DEF Quiet

LEMMA QuietNext == ASSUME BatchInv, Quiet, [Next]_vars PROVE Quiet'
<1>1. Queues
  BY DEF BatchInv
<1>2. CASE SignalOther \/ ApprovalOther \/ PausedOther
  <2>1. NextCommand \in Tame
    <3>1. NextCommand.kind # "abort"
      BY <1>2 DEF SignalOther, ApprovalOther, PausedOther, NextIs
    <3> QED
      BY <1>1, <1>2, <3>1, NextShape DEF SignalOther, ApprovalOther, PausedOther, Tame
  <2>2. /\ held' \in {held, Append(held, NextCommand)}
        /\ paused' \in {paused, Append(paused, NextCommand)}
    BY <1>2 DEF SignalOther, ApprovalOther, PausedOther
  <2>3. \A s \in Seq(Tame) : Append(s, NextCommand) \in Seq(Tame)
    BY <2>1, AppendProperties
  <2>4. held' \in Seq(Tame) /\ paused' \in Seq(Tame)
    BY <2>2, <2>3 DEF Quiet
  <2> QED
    BY <2>4 DEF Quiet
<1>3. CASE SignalAbort \/ SignalsDone \/ PausedResume \/ PausedAbort
  BY <1>3, QuietStays DEF SignalAbort, SignalsDone, PausedResume, PausedAbort
<1>4. CASE SignalPause \/ SignalGate \/ PausedGate
  BY <1>4, QuietStays DEF SignalPause, SignalGate, PausedGate, thread, wait
<1>5. CASE AskApproval \/ ApprovalApprove \/ ApprovalRefuse
  BY <1>5, QuietStays DEF AskApproval, ApprovalApprove, ApprovalRefuse, wait
<1>6. CASE Conversation
  BY <1>6, QuietStays DEF Conversation, AgentTurn, ConversationFails, HumanAnswers,
     ConversationCloses, ReplyOther, CheckSignals, thread, wait
<1>7. CASE Tasks
  BY <1>7, QuietStays DEF Tasks, TakeTask, BlockUnrunnable, TaskPhaseDone,
     TaskPhaseFails, Accept, Unverified, MarkTask, CheckSignals, wait
<1>8. CASE Reviewing
  BY <1>8, QuietStays DEF Reviewing, Judge, Rework, ReviewGateMode, ReviewApprove,
     ReviewReject, ReviewAbort, ReviewRetry, ReviewPause, ReviewOther, ReviewPaused,
     MarkTask, CheckSignals, thread, wait
<1>9. CASE Start \/ StartFails \/ RunInitPhase \/ Load \/ Report
  BY <1>9, QuietStays DEF Start, StartFails, RunInitPhase, InitPhaseDone,
     InitPhaseBlocked, Load, Report, CheckSignals, wait
<1>10. CASE Listener \/ Post \/ PublishLocally \/ EditMap \/ Restart \/ UNCHANGED vars
  BY <1>10, QuietStays DEF Listener, TakeUpdate, DeliverCommand, AnswerUpdate, PollFails,
     Post, PublishLocally, EditMap, Restart, vars, thread, wait
<1> QED
  BY <1>2, <1>3, <1>4, <1>5, <1>6, <1>7, <1>8, <1>9, <1>10
     DEF Next, Thread, Signals, Approval

\* A piece of a sequence of commands.
LEMMA Slice ==
  ASSUME NEW w \in Seq(Command), NEW b \in 1 .. Len(w) + 1, NEW e \in 0 .. Len(w),
         b <= e + 1
  PROVE  /\ SubSeq(w, b, e) \in Seq(Command) /\ Len(SubSeq(w, b, e)) = (e - b) + 1
         /\ \A i \in 1 .. (e - b) + 1 : SubSeq(w, b, e)[i] = w[b + i - 1]
<1>1. \A i \in b .. e : w[i] \in Command
  BY ElementOfSeq
<1>2. SubSeq(w, b, e) \in Seq(Command)
  BY <1>1, SubSeqProperties
<1>3. Len(SubSeq(w, b, e)) = (e - b) + 1
  BY <1>1, SubSeqProperties
<1>4. \A i \in 1 .. (e - b) + 1 : SubSeq(w, b, e)[i] = w[b + i - 1]
  BY <1>1, SubSeqProperties
<1> QED
  BY <1>2, <1>3, <1>4

\* A sequence with one element less is what is before it and what is after it.
LEMMA RemoveIsSubSeq ==
  ASSUME NEW s \in Seq(Command), NEW c \in Command, NEW t \in Seq(Command),
         NEW all, all = s \o (<<c>> \o t)
  PROVE  /\ all \in Seq(Command) /\ Len(s) + 1 \in 1 .. Len(all)
         /\ \A j \in 1 .. Len(s) : all[j] = s[j]
         /\ SubSeq(all, 1, Len(s)) = s
         /\ SubSeq(all, Len(s) + 2, Len(all)) = t
<1> DEFINE n == Len(s)
           m == Len(t)
<1>1. n \in Nat /\ m \in Nat
  BY LenProperties
<1>2. /\ <<c>> \o t \in Seq(Command) /\ Len(<<c>> \o t) = m + 1
      /\ \A i \in 1 .. m + 1 : (<<c>> \o t)[i] = IF i <= 1 THEN c ELSE t[i - 1]
  <2>1. <<c>> \in Seq(Command) /\ Len(<<c>>) = 1 /\ <<c>>[1] = c
    OBVIOUS
  <2> QED
    BY <1>1, <2>1, ConcatProperties
<1> DEFINE r == <<c>> \o t
<1> HIDE DEF r
<1>3. /\ all \in Seq(Command) /\ Len(all) = n + (m + 1)
      /\ \A i \in 1 .. n + (m + 1) : all[i] = IF i <= n THEN s[i] ELSE r[i - n]
  BY <1>2, ConcatProperties DEF r
<1>4. \A i \in 1 .. n : all[i] = s[i]
  BY <1>1, <1>3
<1>5. \A i \in 1 .. m : all[(n + 2) + i - 1] = t[i]
  <2> SUFFICES ASSUME NEW i \in 1 .. m PROVE all[(n + 2) + i - 1] = t[i]
    OBVIOUS
  <2> DEFINE k == (n + 2) + i - 1
  <2>1. k \in 1 .. n + (m + 1) /\ ~(k <= n) /\ k - n = i + 1
    BY <1>1
  <2> HIDE DEF k
  <2>2. PICK j \in 1 .. m + 1 : j = i + 1 /\ ~(j <= 1) /\ j - 1 = i
    BY <1>1
  <2>3. r[j] = t[i]
    BY <1>2, <2>2 DEF r
  <2>4. all[k] = t[i]
    BY <1>3, <2>1, <2>2, <2>3
  <2> QED
    BY <2>4 DEF k
<1> HIDE DEF n, m
<1>6. SubSeq(all, 1, n) = s
  <2>1. SubSeq(all, 1, n) \in Seq(Command) /\ Len(SubSeq(all, 1, n)) = n
    BY <1>1, <1>3, Slice
  <2>2. \A i \in 1 .. n : SubSeq(all, 1, n)[i] = s[i]
    BY <1>1, <1>3, <1>4, Slice
  <2> QED
    BY <2>1, <2>2, SeqEqual DEF n
<1>7. SubSeq(all, n + 2, Len(all)) = t
  <2>1. PICK b \in 1 .. Len(all) + 1 : b = n + 2
    BY <1>1, <1>3
  <2>2. PICK e \in 0 .. Len(all) : e = Len(all)
    BY <1>1, <1>3
  <2>3. b <= e + 1 /\ (e - b) + 1 = m
    BY <1>1, <1>3, <2>1, <2>2
  <2>4. SubSeq(all, b, e) \in Seq(Command) /\ Len(SubSeq(all, b, e)) = m
    BY <1>3, <2>3, Slice
  <2>5. \A i \in 1 .. m : SubSeq(all, b, e)[i] = t[i]
    BY <1>3, <1>5, <2>1, <2>3, Slice
  <2> QED
    BY <2>1, <2>2, <2>4, <2>5, SeqEqual DEF m
<1>8. n + 1 \in 1 .. Len(all)
  BY <1>1, <1>3
<1> QED
  BY <1>3, <1>4, <1>6, <1>7, <1>8 DEF n

\* The next command of the bus is taken past what was set aside before it.
LEMMA MailTakes ==
  ASSUME Queues, Quiet, HasCommand, sent' = sent,
         Kept' = (held \o paused) \o Waiting(Without(bus))
  PROVE  Mail!Take
<1> DEFINE aside == held \o paused
           left == Waiting(Without(bus))
           i == Len(aside) + 1
<1>1. /\ aside \in Seq(Tame) /\ aside \in Seq(Command)
      /\ left \in Seq(Command) /\ NextCommand \in Command
      /\ Kept = aside \o (<<NextCommand>> \o left) /\ Kept' = aside \o left
  BY NextShape, KeptShape, ConcatProperties DEF Queues, Quiet
<1> HIDE DEF aside, left
<1>2. /\ i \in 1 .. Len(Kept)
      /\ \A j \in 1 .. Len(aside) : Kept[j] = aside[j]
      /\ SubSeq(Kept, 1, Len(aside)) = aside
      /\ SubSeq(Kept, Len(aside) + 2, Len(Kept)) = left
  BY <1>1, RemoveIsSubSeq
<1>3. Len(aside) \in Nat /\ i - 1 = Len(aside) /\ i + 1 = Len(aside) + 2
  <2>1. Len(aside) \in Nat
    BY <1>1, LenProperties
  <2> QED
    BY <2>1
<1> HIDE DEF i
<1>4. \A j \in 1 .. i - 1 : Kept[j].kind # "abort"
  <2> SUFFICES ASSUME NEW j \in 1 .. i - 1 PROVE Kept[j].kind # "abort"
    OBVIOUS
  <2>1. aside[j] \in Tame
    BY <1>1, <1>3, ElementOfSeq
  <2> QED
    BY <1>2, <1>3, <2>1 DEF Tame
<1>5. Kept' = SubSeq(Kept, 1, i - 1) \o SubSeq(Kept, i + 1, Len(Kept))
  BY <1>1, <1>2, <1>3
<1> QED
  BY <1>2, <1>4, <1>5 DEF Mail!Take

\* The bus and the five waits around it are one mailbox for whoever sends
\* (command_bus.py, check_signals, _wait_resume_or_abort, wait_for_approval,
\* _human_reply): no command is lost, changed or taken twice while the process
\* lives, and none is acted upon before an ABORT that came earlier.
THEOREM BusIsMailbox == Spec => ImplementsMailbox
<1>1. Init => Mail!Init
  <2> SUFFICES ASSUME Init PROVE Kept = <<>> /\ sent = 0
    BY DEF Mail!Init
  <2>1. held = <<>> /\ paused = <<>> /\ Waiting(bus) = <<>> \o <<>> /\ sent = 0
    BY DEF Init, Fresh, EmptyBus, Waiting
  <2>2. <<>> \in Seq(Command) /\ <<>> \o <<>> = <<>>
    BY ConcatEmptySeq
  <2> QED
    BY <2>1, <2>2 DEF Kept
<1>2. ASSUME BatchInv, Quiet, [Next]_vars PROVE [Mail!Next]_<<Kept, sent>>
  <2>1. Queues /\ KeptMoves
    BY <1>2, QueuesNext DEF BatchInv
  <2>2. CASE HasCommand /\ sent' = sent /\ Kept' = (held \o paused) \o Waiting(Without(bus))
    BY <1>2, <2>1, <2>2, MailTakes DEF Mail!Next
  <2>3. CASE /\ sent' = sent + 1
             /\ \E kind \in Kind : Kept' = Kept \o <<[id |-> sent + 1, kind |-> kind]>>
    <3>1. PICK kind \in Kind : Kept' = Kept \o <<[id |-> sent + 1, kind |-> kind]>>
      BY <2>3
    <3> DEFINE c == [id |-> sent + 1, kind |-> kind]
    <3>2. Kept \in Seq(Command)
      BY <2>1, KeptShape DEF Queues
    <3>3. Kept' = Append(Kept, c)
      BY <3>1, <3>2 DEF Command
    <3> QED
      BY <2>3, <3>3 DEF Mail!Publish, Mail!Next
  <2>4. CASE Kept' = <<>> /\ sent' = sent
    BY <2>4 DEF Mail!Lose, Mail!Next
  <2>5. CASE Kept' = Kept /\ sent' = sent
    BY <2>5
  <2> QED
    BY <2>1, <2>2, <2>3, <2>4, <2>5 DEF KeptMoves
<1> QED
  BY BatchInit, BatchNext, QuietInit, QuietNext, <1>1, <1>2, PTL
     DEF Spec, ImplementsMailbox, Mail!Spec
=============================================================================
