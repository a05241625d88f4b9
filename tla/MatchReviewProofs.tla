-------------------------- MODULE MatchReviewProofs --------------------------
(***************************************************************************)
(* Theorems about MatchReview, for any matches, users, channels, commands   *)
(* and bounds.                                                              *)
(***************************************************************************)
EXTENDS MatchReview, SequenceTheorems, TLAPS

-----------------------------------------------------------------------------
\* The inductive invariant.

\* An accept by the owner of its match.
Asks(cmd) == cmd.name = "accept" /\ Owns(cmd)

\* A handler works on an update of the fetched batch; past the owner check an accept
\* is the owner's.
AtWork ==
  \A ch \in Channels : /\ phase[ch] # "idle" => batch[ch] > 0
                       /\ phase[ch] = "accepted" => Asks(Command(ch))

\* Whatever is delivered or may be delivered again was sent.
SentByOwner ==
  \A ch \in Channels :
    /\ \A i \in 1 .. Len(inbox[ch]) : Asks(inbox[ch][i]) => inbox[ch][i].match \in asked
    /\ \A i \in 1 .. Len(unconfirmed[ch]) :
         Asks(unconfirmed[ch][i]) => unconfirmed[ch][i].match \in asked

\* A job was asked for.
Ordered == \A m \in Matches : job[m] # "absent" => m \in asked

\* Until it is recorded as sent, and never after, a job can be claimed.
OneJob ==
  \A m \in Matches :
    /\ job[m] \in {"absent", "queued"} => hold[m] = "none" /\ applications[m] = 0
    /\ hold[m] = "submitting" => applications[m] = 0
    /\ applications[m] <= 1

\* A rated match has a score, and a pass holds no match its scorer has rated: whoever
\* has rated a match since the pass listed it, it was not this scorer.
Rated ==
  \A m \in Matches : \A s \in Scorers : /\ ratings[m][s] <= 1
                                        /\ ratings[m][s] > 0 => scored[m]
                                        /\ m \in drain[s] => ratings[m][s] = 0

IInv == TypeOK /\ AtWork /\ SentByOwner /\ Ordered /\ OneJob /\ Rated

LEMMA InitInv == Init => IInv
BY ReviewAssumption
   DEF Init, IInv, TypeOK, AtWork, SentByOwner, Ordered, OneJob, Rated

-----------------------------------------------------------------------------
\* Types.

\* The first of the fetched updates is a command, and is moved to the unconfirmed.
LEMMA EndUpdateEffect ==
  ASSUME TypeOK, NEW ch \in Channels, batch[ch] > 0, EndUpdate(ch)
  PROVE  /\ Command(ch) \in Commands
         /\ inbox' \in [Channels -> Seq(Commands)]
         /\ unconfirmed' \in [Channels -> Seq(Commands)]
         /\ batch' \in [Channels -> Nat]
         /\ phase' \in [Channels -> {"idle", "checked", "accepted", "decided"}]
         /\ \A c \in Channels : batch'[c] <= Len(inbox'[c])
<1>1. inbox[ch] \in Seq(Commands) /\ inbox[ch] # <<>> /\ unconfirmed[ch] \in Seq(Commands)
  BY DEF TypeOK
<1>2. /\ Command(ch) \in Commands
      /\ Tail(inbox[ch]) \in Seq(Commands)
      /\ Len(Tail(inbox[ch])) = Len(inbox[ch]) - 1
  BY <1>1, HeadTailProperties DEF Command
<1>3. inbox' \in [Channels -> Seq(Commands)]
  BY <1>2 DEF TypeOK, EndUpdate
<1>4. unconfirmed' \in [Channels -> Seq(Commands)]
  BY <1>1, <1>2 DEF TypeOK, EndUpdate
<1>5. batch' \in [Channels -> Nat]
  BY DEF TypeOK, EndUpdate
<1>6. \A c \in Channels : batch'[c] <= Len(inbox'[c])
  BY <1>2 DEF TypeOK, EndUpdate
<1>7. phase' \in [Channels -> {"idle", "checked", "accepted", "decided"}]
  BY DEF TypeOK, EndUpdate
<1>. QED  BY <1>2, <1>3, <1>4, <1>5, <1>6, <1>7

\* What a command of the fetched batch is.
LEMMA CommandType ==
  ASSUME TypeOK, NEW ch \in Channels, batch[ch] > 0
  PROVE  /\ Command(ch) \in Commands
         /\ Command(ch).match \in Matches
         /\ Decision[Command(ch).name] \in MatchStatus
<1>1. Command(ch) \in Commands
  BY HeadTailProperties DEF TypeOK, Command
<1>. QED  BY <1>1, ReviewAssumption DEF Decision, MatchStatus

\* Every step keeps every variable in its range.
LEMMA TypeStep == TypeOK /\ AtWork /\ [Next]_vars => TypeOK'
<1>. SUFFICES ASSUME TypeOK, AtWork, [Next]_vars PROVE TypeOK'
  OBVIOUS
<1>. USE ReviewAssumption DEF jobVars, scorerVars, bounds
<1>1. CASE UNCHANGED vars
  BY <1>1 DEF vars, chatVars, TypeOK
<1>2. ASSUME NEW m \in Matches, Ingest(m) PROVE TypeOK'
  BY <1>2 DEF Ingest, chatVars, TypeOK, MatchStatus
<1>3. ASSUME NEW m \in Matches, ApiStep(m) PROVE TypeOK'
  <2>1. ASSUME NEW s \in MatchStatus, Patch(m, s) PROVE TypeOK'
    <3>1. status' \in [Matches -> MatchStatus \cup {"absent"}]
      BY <2>1 DEF Patch, TypeOK
    <3>2. scored' \in [Matches -> BOOLEAN]
      BY <2>1 DEF Patch, TypeOK
    <3>. QED  BY <2>1, <3>1, <3>2 DEF Patch, chatVars, TypeOK
  <2>2. CASE RequestJob(m)
    BY <2>2 DEF RequestJob, Enqueued, chatVars, TypeOK, JobStatus
  <2>3. CASE CancelJob(m)
    BY <2>3 DEF CancelJob, chatVars, TypeOK, JobStatus, Row!Cancel
  <2>. QED  BY <1>3, <2>1, <2>2, <2>3 DEF ApiStep
<1>4. ASSUME NEW m \in Matches, WorkerStep(m) PROVE TypeOK'
  <2>. USE DEF chatVars, TypeOK, JobStatus, MatchStatus
  <2>1. CASE ClaimJob(m)
    BY <2>1 DEF ClaimJob, Row!Claim
  <2>2. CASE CompleteJob(m)
    BY <2>2 DEF CompleteJob, Row!Complete
  <2>3. CASE FailJob(m)
    BY <2>3 DEF FailJob, Row!Fail
  <2>4. CASE DropJob(m)
    BY <2>4 DEF DropJob, Row!Drop, Row!LetGo
  <2>5. CASE FlipMatch(m)
    BY <2>5 DEF FlipMatch, Row!Drop, Row!LetGo
  <2>. QED  BY <1>4, <2>1, <2>2, <2>3, <2>4, <2>5 DEF WorkerStep
<1>5. ASSUME NEW ch \in Channels, NEW cmd \in Commands, Send(ch, cmd) PROVE TypeOK'
  <2>1. inbox' \in [Channels -> Seq(Commands)]
    BY <1>5 DEF Send, TypeOK
  <2>2. \A c \in Channels : batch'[c] <= Len(inbox'[c])
    <3>1. Len(Append(inbox[ch], cmd)) = Len(inbox[ch]) + 1
      BY <1>5, AppendProperties DEF TypeOK
    <3>. QED  BY <1>5, <3>1 DEF Send, TypeOK
  <2>3. asked' \subseteq Matches
    BY <1>5 DEF Send, TypeOK
  <2>. QED  BY <1>5, <2>1, <2>2, <2>3 DEF Send, TypeOK
<1>6. ASSUME NEW ch \in Channels, BotStep(ch) PROVE TypeOK'
  <2>1. CASE Poll(ch)
    <3>1. /\ batch' \in [Channels -> Nat]
          /\ \A c \in Channels : batch'[c] <= Len(inbox'[c])
      BY <2>1, LenProperties DEF Poll, TypeOK
    <3>2. unconfirmed' \in [Channels -> Seq(Commands)]
      BY <2>1, EmptySeq DEF Poll, TypeOK
    <3>. QED  BY <2>1, <3>1, <3>2 DEF Poll, TypeOK
  <2>2. CASE EndUpdate(ch) /\ batch[ch] > 0
             /\ UNCHANGED <<status, scored, jobVars, asked, scorerVars, bounds>>
    BY <2>2, EndUpdateEffect DEF TypeOK
  <2>3. CASE Check(ch)
    BY <2>3 DEF Check, TypeOK
  <2>4. CASE WriteDecision(ch)
    <3>1. batch[ch] > 0
      BY <2>4 DEF WriteDecision, AtWork
    <3>. QED  BY <2>4, <3>1, CommandType DEF WriteDecision, TypeOK
  <2>5. CASE EnqueueJob(ch)
    <3>1. batch[ch] > 0
      BY <2>5 DEF EnqueueJob, AtWork
    <3>2. job' \in [Matches -> JobStatus \cup {"absent"}]
      BY <2>5, <3>1, CommandType DEF EnqueueJob, Enqueued, TypeOK, JobStatus
    <3>. QED  BY <2>5, <3>2 DEF EnqueueJob, TypeOK
  <2>6. CASE EnqueueFails(ch)
    BY <2>6 DEF EnqueueFails, TypeOK
  <2>. QED  BY <1>6, <2>1, <2>2, <2>3, <2>4, <2>5, <2>6
            DEF BotStep, Refuse, RefuseStranger, Reply, HandlerRaises, AtWork
<1>7. ASSUME NEW s \in Scorers, ScorerStep(s) PROVE TypeOK'
  <2>. USE DEF chatVars, MatchStatus
  <2>1. CASE StartPass(s)
    BY <2>1 DEF StartPass, Pending, TypeOK
  <2>2. ASSUME NEW m \in Matches, AskLLM(s, m) PROVE TypeOK'
    BY <2>2 DEF AskLLM, TypeOK
  <2>0. ASSUME EndScoring(s)
        PROVE  /\ scoring[s] \in Matches
               /\ drain' \in [Scorers -> SUBSET Matches]
               /\ scoring' \in [Scorers -> Matches \cup {NoMatch}]
               /\ \A q \in Scorers : scoring'[q] \in drain'[q] \cup {NoMatch}
    BY <2>0 DEF EndScoring, TypeOK
  <2>3. CASE StoreScore(s)
    <3>1. /\ status' \in [Matches -> MatchStatus \cup {"absent"}]
          /\ scored' \in [Matches -> BOOLEAN]
      BY <2>0, <2>3 DEF StoreScore, TypeOK
    <3>2. ratings' \in [Matches -> [Scorers -> Nat]]
      <4>. DEFINE r == scoring[s]
      <4>1. r \in Matches /\ ratings' = [ratings EXCEPT ![r][s] = @ + 1]
        BY <2>0, <2>3 DEF StoreScore
      <4>. HIDE DEF r
      <4>. QED  BY <4>1 DEF TypeOK
    <3>. QED  BY <2>0, <2>3, <3>1, <3>2 DEF StoreScore, TypeOK
  <2>4. CASE ScoringFails(s)
    BY <2>0, <2>4 DEF ScoringFails, TypeOK
  <2>. QED  BY <1>7, <2>1, <2>2, <2>3, <2>4 DEF ScorerStep
<1>8. CASE Crash
  <2>1. ASSUME NEW ch \in Channels, CrashBot(ch) PROVE TypeOK'
    <3>1. inbox' \in [Channels -> Seq(Commands)]
      <4>1. unconfirmed[ch] \o inbox[ch] \in Seq(Commands)
        BY ConcatProperties DEF TypeOK
      <4>. QED  BY <2>1, <4>1 DEF CrashBot, TypeOK
    <3>2. unconfirmed' \in [Channels -> Seq(Commands)]
      BY <2>1, EmptySeq DEF CrashBot, TypeOK
    <3>3. \A c \in Channels : batch'[c] <= Len(inbox'[c])
      BY <2>1, <3>1, LenProperties DEF CrashBot, TypeOK
    <3>. QED  BY <2>1, <3>1, <3>2, <3>3, SMTT(20) DEF CrashBot, TypeOK
  <2>2. ASSUME NEW m \in Matches, CrashWorker(m) PROVE TypeOK'
    BY <2>2 DEF CrashWorker, chatVars, TypeOK, Row!Die, Row!LetGo
  <2>3. ASSUME NEW s \in Scorers, CrashScorer(s) PROVE TypeOK'
    BY <2>3 DEF CrashScorer, chatVars, TypeOK
  <2>. QED  BY <1>8, <2>1, <2>2, <2>3 DEF Crash
<1>. QED  BY <1>1, <1>2, <1>3, <1>4, <1>5, <1>6, <1>7, <1>8 DEF Next

-----------------------------------------------------------------------------
\* Chats.

\* A handler starts on a fetched update and ends with it; past the owner check an
\* accept stays the owner's.
LEMMA AtWorkStep == TypeOK /\ AtWork /\ [Next]_vars => AtWork'
<1>. SUFFICES ASSUME TypeOK, AtWork, [Next]_vars PROVE AtWork'
  OBVIOUS
<1>1. CASE UNCHANGED chatVars
  BY <1>1 DEF AtWork, chatVars, Command
<1>2. ASSUME NEW ch \in Channels, NEW cmd \in Commands, Send(ch, cmd) PROVE AtWork'
  <2>1. ASSUME NEW c \in Channels, phase[c] # "idle"
        PROVE  Command(c)' = Command(c)
    <3>1. inbox[c] \in Seq(Commands) /\ inbox[c] # <<>>
      BY <2>1 DEF AtWork, TypeOK
    <3>2. Head(Append(inbox[c], cmd)) = Head(inbox[c])
      BY <3>1, AppendProperties, HeadTailProperties
    <3>. QED  BY <1>2, <3>2 DEF Send, Command, TypeOK
  <2>. QED  BY <1>2, <2>1 DEF Send, AtWork, Asks, Owns
<1>3. ASSUME NEW ch \in Channels, BotStep(ch) PROVE AtWork'
  <2>1. CASE Poll(ch)
    BY <2>1 DEF Poll, AtWork, Command, TypeOK
  <2>2. CASE EndUpdate(ch) /\ batch[ch] > 0
    <3>1. phase' = [phase EXCEPT ![ch] = "idle"]
      BY <2>2 DEF EndUpdate
    <3>2. \A c \in Channels \ {ch} : batch'[c] = batch[c] /\ inbox'[c] = inbox[c]
      BY <2>2 DEF EndUpdate, TypeOK
    <3>. QED  BY <3>1, <3>2 DEF AtWork, Command, TypeOK
  <2>3. CASE Check(ch)
    BY <2>3 DEF Check, AtWork, Command, TypeOK
  <2>4. CASE WriteDecision(ch)
    BY <2>4 DEF WriteDecision, AtWork, Command, TypeOK, Asks
  <2>5. CASE EnqueueJob(ch) \/ EnqueueFails(ch)
    BY <2>5 DEF EnqueueJob, EnqueueFails, AtWork, Command, TypeOK
  <2>. QED  BY <1>3, <2>1, <2>2, <2>3, <2>4, <2>5
            DEF BotStep, Refuse, RefuseStranger, Reply, HandlerRaises, AtWork
<1>4. ASSUME NEW ch \in Channels, CrashBot(ch) PROVE AtWork'
  <2>1. \A c \in Channels \ {ch} : /\ phase'[c] = phase[c] /\ batch'[c] = batch[c]
                                   /\ inbox'[c] = inbox[c]
    BY <1>4 DEF CrashBot, TypeOK
  <2>2. phase'[ch] = "idle"
    BY <1>4 DEF CrashBot, TypeOK
  <2>. QED  BY <2>1, <2>2 DEF AtWork, Command
<1>. QED  BY <1>1, <1>2, <1>3, <1>4
          DEF Next, vars, Ingest, ApiStep, Patch, RequestJob, CancelJob, WorkerStep, ClaimJob,
              CompleteJob, FailJob, DropJob, FlipMatch, ScorerStep, StartPass, AskLLM,
              StoreScore, ScoringFails, Crash, CrashWorker, CrashScorer,
              Row!Cancel, Row!Claim, Row!Complete, Row!Fail, Row!Drop, Row!LetGo, Row!Die

\* A position in a concatenation is one of the first part or one of the second.
LEMMA IntervalSplit ==
  ASSUME NEW n \in Nat, NEW k \in Nat, NEW i \in 1 .. (n + k)
  PROVE  \/ i <= n /\ i \in 1 .. n
         \/ ~(i <= n) /\ i - n \in 1 .. k
OBVIOUS

\* An update moves between the inbox and the unconfirmed; none is made up.
LEMMA SentStep == TypeOK /\ AtWork /\ SentByOwner /\ [Next]_vars => SentByOwner'
<1>. SUFFICES ASSUME TypeOK, AtWork, SentByOwner, [Next]_vars PROVE SentByOwner'
  OBVIOUS
<1>1. CASE UNCHANGED <<inbox, unconfirmed>> /\ asked \subseteq asked'
  BY <1>1 DEF SentByOwner, Asks, Owns
<1>2. ASSUME NEW ch \in Channels, NEW cmd \in Commands, Send(ch, cmd) PROVE SentByOwner'
  <2>1. asked \subseteq asked' /\ (Asks(cmd) => cmd.match \in asked')
    BY <1>2 DEF Send, Asks, Owns
  <2>2. \A c \in Channels \ {ch} : inbox'[c] = inbox[c]
    BY <1>2 DEF Send, TypeOK
  <2>3. inbox'[ch] = Append(inbox[ch], cmd)
    BY <1>2 DEF Send, TypeOK
  <2>4. /\ Len(inbox'[ch]) = Len(inbox[ch]) + 1
        /\ \A i \in 1 .. Len(inbox[ch]) : inbox'[ch][i] = inbox[ch][i]
        /\ inbox'[ch][Len(inbox[ch]) + 1] = cmd
    BY <2>3, AppendProperties DEF TypeOK
  <2>5. Len(inbox[ch]) \in Nat
    BY LenProperties DEF TypeOK
  <2>6. \A i \in 1 .. Len(inbox'[ch]) : Asks(inbox'[ch][i]) => inbox'[ch][i].match \in asked'
    BY <2>1, <2>4, <2>5 DEF SentByOwner
  <2>7. unconfirmed' = unconfirmed
    BY <1>2 DEF Send
  <2>. QED  BY <2>1, <2>2, <2>6, <2>7 DEF SentByOwner, Asks, Owns
<1>3. ASSUME NEW ch \in Channels, Poll(ch) PROVE SentByOwner'
  BY <1>3 DEF Poll, SentByOwner, TypeOK, Asks, Owns
<1>4. ASSUME NEW ch \in Channels, EndUpdate(ch), batch[ch] > 0, UNCHANGED asked
      PROVE  SentByOwner'
  <2>1. inbox[ch] \in Seq(Commands) /\ inbox[ch] # <<>> /\ unconfirmed[ch] \in Seq(Commands)
    BY <1>4 DEF TypeOK
  <2>2. Command(ch) = inbox[ch][1] /\ 1 \in 1 .. Len(inbox[ch])
    BY <2>1, HeadTailProperties, LenProperties, EmptySeq DEF Command
  <2>3. /\ Len(Tail(inbox[ch])) = Len(inbox[ch]) - 1
        /\ \A i \in 1 .. Len(Tail(inbox[ch])) : Tail(inbox[ch])[i] = inbox[ch][i + 1]
    BY <2>1, HeadTailProperties
  <2>4. \A i \in 1 .. Len(inbox'[ch]) : Asks(inbox'[ch][i]) => inbox'[ch][i].match \in asked
    <3>1. inbox'[ch] = Tail(inbox[ch])
      BY <1>4 DEF EndUpdate, TypeOK
    <3>2. \A i \in 1 .. Len(Tail(inbox[ch])) : i + 1 \in 1 .. Len(inbox[ch])
      BY <2>1, <2>3, LenProperties
    <3>. QED  BY <2>3, <3>1, <3>2 DEF SentByOwner
  <2>5. /\ Len(unconfirmed'[ch]) = Len(unconfirmed[ch]) + 1
        /\ \A i \in 1 .. Len(unconfirmed[ch]) : unconfirmed'[ch][i] = unconfirmed[ch][i]
        /\ unconfirmed'[ch][Len(unconfirmed[ch]) + 1] = Command(ch)
    BY <1>4, <2>1, EndUpdateEffect, AppendProperties DEF EndUpdate, TypeOK
  <2>6. \A i \in 1 .. Len(unconfirmed'[ch]) :
          Asks(unconfirmed'[ch][i]) => unconfirmed'[ch][i].match \in asked
    BY <2>1, <2>2, <2>5, LenProperties, SMTT(20) DEF SentByOwner
  <2>7. \A c \in Channels \ {ch} : inbox'[c] = inbox[c] /\ unconfirmed'[c] = unconfirmed[c]
    BY <1>4 DEF EndUpdate, TypeOK
  <2>. QED  BY <1>4, <2>4, <2>6, <2>7 DEF SentByOwner, Asks, Owns
<1>5. ASSUME NEW ch \in Channels, CrashBot(ch) PROVE SentByOwner'
  <2>1. inbox'[ch] = unconfirmed[ch] \o inbox[ch]
    BY <1>5 DEF CrashBot, TypeOK
  <2>2. /\ Len(inbox'[ch]) = Len(unconfirmed[ch]) + Len(inbox[ch])
        /\ \A i \in 1 .. Len(inbox'[ch]) :
             inbox'[ch][i] = IF i <= Len(unconfirmed[ch]) THEN unconfirmed[ch][i]
                             ELSE inbox[ch][i - Len(unconfirmed[ch])]
    BY <2>1, ConcatProperties DEF TypeOK
  <2>3. Len(inbox[ch]) \in Nat /\ Len(unconfirmed[ch]) \in Nat
    BY LenProperties DEF TypeOK
  <2>4. \A i \in 1 .. Len(inbox'[ch]) : Asks(inbox'[ch][i]) => inbox'[ch][i].match \in asked
    <3>. SUFFICES ASSUME NEW i \in 1 .. Len(inbox'[ch]), Asks(inbox'[ch][i])
                  PROVE  inbox'[ch][i].match \in asked
      OBVIOUS
    <3>1. i \in 1 .. (Len(unconfirmed[ch]) + Len(inbox[ch]))
      BY <2>2
    <3>2. inbox'[ch][i] = IF i <= Len(unconfirmed[ch]) THEN unconfirmed[ch][i]
                          ELSE inbox[ch][i - Len(unconfirmed[ch])]
      BY <2>2
    <3>3. \/ i <= Len(unconfirmed[ch]) /\ i \in 1 .. Len(unconfirmed[ch])
          \/ ~(i <= Len(unconfirmed[ch])) /\ i - Len(unconfirmed[ch]) \in 1 .. Len(inbox[ch])
      BY <2>3, <3>1, IntervalSplit
    <3>. QED  BY <3>2, <3>3 DEF SentByOwner
  <2>5. /\ asked' = asked
        /\ unconfirmed'[ch] = <<>>
        /\ \A c \in Channels \ {ch} : inbox'[c] = inbox[c] /\ unconfirmed'[c] = unconfirmed[c]
    BY <1>5 DEF CrashBot, TypeOK
  <2>. QED  BY <2>4, <2>5 DEF SentByOwner, Asks, Owns
<1>6. ASSUME NEW ch \in Channels, BotStep(ch) PROVE SentByOwner'
  BY <1>1, <1>3, <1>4, <1>6
     DEF BotStep, Refuse, RefuseStranger, Reply, HandlerRaises, Check, WriteDecision,
         EnqueueJob, EnqueueFails, AtWork
<1>. QED  BY <1>1, <1>2, <1>5, <1>6
          DEF Next, vars, chatVars, Ingest, ApiStep, Patch, RequestJob, CancelJob, WorkerStep,
              ClaimJob, CompleteJob, FailJob, DropJob, FlipMatch, ScorerStep, StartPass,
              AskLLM, StoreScore, ScoringFails, Crash, CrashWorker, CrashScorer,
              Row!Cancel, Row!Claim, Row!Complete, Row!Fail, Row!Drop, Row!LetGo, Row!Die

-----------------------------------------------------------------------------
\* Jobs and scores.

\* Only the accept of an owner and the API create a job.
LEMMA OrderedStep ==
  TypeOK /\ AtWork /\ SentByOwner /\ OneJob /\ Ordered /\ [Next]_vars => Ordered'
<1>. SUFFICES ASSUME TypeOK, AtWork, SentByOwner, OneJob, Ordered, [Next]_vars
              PROVE  Ordered'
  OBVIOUS
<1>1. CASE UNCHANGED job /\ asked \subseteq asked'
  BY <1>1 DEF Ordered
<1>2. ASSUME NEW ch \in Channels, EnqueueJob(ch) PROVE Ordered'
  <2>1. phase[ch] = "accepted" /\ batch[ch] > 0 /\ Asks(Command(ch))
    BY <1>2 DEF EnqueueJob, AtWork
  <2>2. Command(ch) = inbox[ch][1] /\ 1 \in 1 .. Len(inbox[ch])
    BY <2>1, HeadTailProperties, LenProperties, EmptySeq DEF Command, TypeOK
  <2>3. Command(ch).match \in asked
    BY <2>1, <2>2 DEF SentByOwner
  <2>4. \A m \in Matches \ {Command(ch).match} : job'[m] = job[m]
    BY <1>2 DEF EnqueueJob, Enqueued, TypeOK
  <2>. QED  BY <1>2, <2>3, <2>4 DEF EnqueueJob, Ordered
<1>3. ASSUME NEW m \in Matches, ApiStep(m) PROVE Ordered'
  <2>1. CASE RequestJob(m)
    BY <2>1 DEF RequestJob, Enqueued, Ordered, TypeOK
  <2>2. CASE CancelJob(m)
    BY <2>2 DEF CancelJob, Ordered, TypeOK, Row!Cancel
  <2>3. ASSUME NEW s \in MatchStatus, Patch(m, s) PROVE Ordered'
    BY <1>1, <2>3 DEF Patch, jobVars
  <2>. QED  BY <1>3, <2>1, <2>2, <2>3 DEF ApiStep
<1>4. ASSUME NEW m \in Matches, WorkerStep(m) PROVE Ordered'
  BY <1>4 DEF WorkerStep, ClaimJob, CompleteJob, FailJob, DropJob, FlipMatch, Ordered, OneJob,
              TypeOK, Row!Claim, Row!Complete, Row!Fail, Row!Drop, Row!LetGo
<1>. QED  BY <1>1, <1>2, <1>3, <1>4
          DEF Next, vars, jobVars, chatVars, Ingest, Send, BotStep, Poll, Refuse, Check,
              RefuseStranger, WriteDecision, EnqueueFails, Reply, HandlerRaises, ScorerStep,
              StartPass, AskLLM, StoreScore, ScoringFails, Crash, CrashBot, CrashWorker,
              CrashScorer, Row!Die, Row!LetGo

\* Nothing queues a job again but the worker that holds it and has not sent it.
LEMMA OneJobStep == TypeOK /\ AtWork /\ OneJob /\ [Next]_vars => OneJob'
<1>. SUFFICES ASSUME TypeOK, AtWork, OneJob, [Next]_vars PROVE OneJob'
  OBVIOUS
<1>1. CASE UNCHANGED jobVars
  BY <1>1 DEF OneJob, jobVars
<1>2. ASSUME NEW ch \in Channels, EnqueueJob(ch) PROVE OneJob'
  <2>1. UNCHANGED <<hold, applications>>
    BY <1>2 DEF EnqueueJob
  <2>2. \A m \in Matches : \/ job'[m] = job[m]
                           \/ job[m] = "absent" /\ job'[m] = "queued"
    BY <1>2 DEF EnqueueJob, Enqueued, TypeOK
  <2>. QED  BY <2>1, <2>2 DEF OneJob
<1>3. ASSUME NEW m \in Matches, ApiStep(m) PROVE OneJob'
  <2>1. CASE RequestJob(m)
    BY <2>1 DEF RequestJob, Enqueued, OneJob, TypeOK
  <2>2. CASE CancelJob(m)
    BY <2>2 DEF CancelJob, OneJob, TypeOK, Row!Cancel
  <2>3. ASSUME NEW s \in MatchStatus, Patch(m, s) PROVE OneJob'
    BY <1>1, <2>3 DEF Patch
  <2>. QED  BY <1>3, <2>1, <2>2, <2>3 DEF ApiStep
<1>4. ASSUME NEW m \in Matches, WorkerStep(m) PROVE OneJob'
  <2>. USE DEF OneJob, TypeOK, JobStatus
  <2>1. CASE ClaimJob(m)
    BY <2>1 DEF ClaimJob, Row!Claim
  <2>2. CASE CompleteJob(m)
    BY <2>2 DEF CompleteJob, Row!Complete
  <2>3. CASE FailJob(m)
    BY <2>3 DEF FailJob, Row!Fail
  <2>4. CASE DropJob(m)
    BY <2>4 DEF DropJob, Row!Drop, Row!LetGo
  <2>5. CASE FlipMatch(m)
    BY <2>5 DEF FlipMatch, Row!Drop, Row!LetGo
  <2>. QED  BY <1>4, <2>1, <2>2, <2>3, <2>4, <2>5 DEF WorkerStep
<1>5. ASSUME NEW m \in Matches, CrashWorker(m) PROVE OneJob'
  BY <1>5 DEF CrashWorker, OneJob, TypeOK, Row!Die, Row!LetGo
<1>. QED  BY <1>1, <1>2, <1>3, <1>4, <1>5
          DEF Next, vars, Ingest, Send, BotStep, Poll, Refuse, Check, RefuseStranger,
              WriteDecision, EnqueueFails, Reply, HandlerRaises, ScorerStep, StartPass, AskLLM,
              StoreScore, ScoringFails, Crash, CrashBot, CrashScorer

\* A stored score takes the match out of its scorer's pass and out of every later one.
LEMMA RatedStep == TypeOK /\ Rated /\ [Next]_vars => Rated'
<1>. SUFFICES ASSUME TypeOK, Rated, [Next]_vars PROVE Rated'
  OBVIOUS
<1>1. CASE UNCHANGED <<scored, ratings, drain>>
  BY <1>1 DEF Rated
<1>2. ASSUME NEW m \in Matches, NEW st \in MatchStatus, Patch(m, st) PROVE Rated'
  <2>1. UNCHANGED <<ratings, drain>> /\ \A n \in Matches : scored[n] => scored'[n]
    BY <1>2 DEF Patch, scorerVars, TypeOK
  <2>. QED  BY <2>1 DEF Rated
<1>3. ASSUME NEW s \in Scorers, ScorerStep(s) PROVE Rated'
  <2>1. CASE StartPass(s)
    BY <2>1 DEF StartPass, Pending, Rated, TypeOK
  <2>0. ASSUME EndScoring(s)
        PROVE  /\ scoring[s] \in Matches /\ scoring[s] \in drain[s]
               /\ scoring[s] \notin drain'[s]
               /\ \A q \in Scorers : drain'[q] \subseteq drain[q]
    BY <2>0 DEF EndScoring, TypeOK
  <2>2. CASE StoreScore(s)
    <3>. DEFINE r == scoring[s]
    <3>0. r \in Matches /\ r \in drain[s] /\ r \notin drain'[s]
      BY <2>0, <2>2 DEF StoreScore
    <3>. HIDE DEF r
    <3>1. /\ ratings' = [ratings EXCEPT ![r][s] = @ + 1]
          /\ scored' = [scored EXCEPT ![r] = TRUE]
      BY <2>2 DEF StoreScore, r
    <3>2. /\ ratings'[r] = [ratings[r] EXCEPT ![s] = @ + 1]
          /\ \A n \in Matches \ {r} : ratings'[n] = ratings[n] /\ scored'[n] = scored[n]
          /\ scored'[r]
      BY <3>0, <3>1 DEF TypeOK
    <3>3. ratings'[r][s] = 1 /\ \A q \in Scorers \ {s} : ratings'[r][q] = ratings[r][q]
      BY <3>0, <3>2 DEF Rated, TypeOK
    <3>4. \A q \in Scorers : drain'[q] \subseteq drain[q]
      BY <2>0, <2>2 DEF StoreScore
    <3>5. ASSUME NEW n \in Matches \ {r}, NEW q \in Scorers
          PROVE  /\ ratings'[n][q] <= 1 /\ (ratings'[n][q] > 0 => scored'[n])
                 /\ n \in drain'[q] => ratings'[n][q] = 0
      BY <3>2, <3>4 DEF Rated
    <3>6. ASSUME NEW q \in Scorers
          PROVE  /\ ratings'[r][q] <= 1 /\ (ratings'[r][q] > 0 => scored'[r])
                 /\ r \in drain'[q] => ratings'[r][q] = 0
      BY <3>0, <3>2, <3>3, <3>4 DEF Rated
    <3>. QED  BY <3>5, <3>6 DEF Rated
  <2>3. CASE ScoringFails(s)
    BY <2>0, <2>3 DEF ScoringFails, Rated
  <2>4. ASSUME NEW m \in Matches, AskLLM(s, m) PROVE Rated'
    BY <1>1, <2>4 DEF AskLLM
  <2>. QED  BY <1>3, <2>1, <2>2, <2>3, <2>4 DEF ScorerStep
<1>4. ASSUME NEW s \in Scorers, CrashScorer(s) PROVE Rated'
  BY <1>4 DEF CrashScorer, Rated, TypeOK
<1>. QED  BY <1>1, <1>2, <1>3, <1>4
          DEF Next, vars, scorerVars, Ingest, ApiStep, RequestJob, CancelJob, WorkerStep,
              ClaimJob, CompleteJob, FailJob, DropJob, FlipMatch, Send, BotStep, Poll, Refuse,
              Check, RefuseStranger, WriteDecision, EnqueueJob, EnqueueFails, Reply,
              HandlerRaises, Crash, CrashBot, CrashWorker,
              Row!Cancel, Row!Claim, Row!Complete, Row!Fail, Row!Drop, Row!LetGo, Row!Die

-----------------------------------------------------------------------------
\* Theorems.

LEMMA InvStep == IInv /\ [Next]_vars => IInv'
BY TypeStep, AtWorkStep, SentStep, OrderedStep, OneJobStep, RatedStep DEF IInv

LEMMA InvHolds == Spec => []IInv
BY InitInv, InvStep, PTL DEF Spec

\* The match rows, the bot loops and the scorers stay in range; in particular a bot
\* never counts more updates in its batch than it has fetched.
THEOREM TypeCorrect == Spec => []TypeOK
<1>1. IInv => TypeOK
  BY DEF IInv
<1>. QED  BY InvHolds, <1>1, PTL

\* A worker only ever holds the job of a match whose owner sent an accept, or that
\* was ordered through the API.
THEOREM SubmissionsAreRequested == Spec => []OnlyRequested
<1>1. IInv => OnlyRequested
  BY DEF IInv, TypeOK, JobStatus, Ordered, OneJob, OnlyRequested
<1>. QED  BY InvHolds, <1>1, PTL

\* One application is recorded for a match, however often it is accepted again.
THEOREM AppliesOnce == Spec => []OneApplication
<1>1. IInv => OneApplication
  BY DEF IInv, OneJob, OneApplication
<1>. QED  BY InvHolds, <1>1, PTL

\* For any number of scorers whose passes overlap in any way, none stores two scores for
\* a match: a score takes the match off every list made after it, and each scorer works
\* through the list it made.  That two scorers store one each is allowed, and happens.
THEOREM RatesOncePerScorer == Spec => []RatedOncePerScorer
<1>1. IInv => RatedOncePerScorer
  BY DEF IInv, Rated, RatedOncePerScorer
<1>. QED  BY InvHolds, <1>1, PTL

-----------------------------------------------------------------------------
\* The jobs of the matches are ApplyRows.

\* enqueue_for_match inserts a row or returns the one there is.
LEMMA EnqueuedIsInsert ==
  ASSUME TypeOK, NEW m \in Matches, job' = Enqueued(m), UNCHANGED <<hold, applications>>
  PROVE  [Row!Next]_(Row!vars)
<1>1. CASE job[m] = "absent"
  BY <1>1 DEF Enqueued, TypeOK, Row!Insert, Row!Next
<1>2. CASE job[m] # "absent"
  <2>1. UNCHANGED job
    BY <1>2 DEF Enqueued, TypeOK
  <2>. QED  BY <2>1 DEF Row!vars
<1>. QED  BY <1>1, <1>2

\* Every step of the program takes a row one step further or leaves all of them.
LEMMA RowStep == IInv /\ [Next]_vars => [Row!Next]_(Row!vars)
<1>. SUFFICES ASSUME IInv, [Next]_vars PROVE [Row!Next]_(Row!vars)
  OBVIOUS
<1>. USE DEF jobVars
<1>0. TypeOK /\ AtWork
  BY DEF IInv
<1>1. ASSUME UNCHANGED jobVars PROVE [Row!Next]_(Row!vars)
  BY <1>1 DEF Row!vars
<1>2. CASE UNCHANGED vars
  BY <1>1, <1>2 DEF vars
<1>3. ASSUME NEW ch \in Channels, BotStep(ch) PROVE [Row!Next]_(Row!vars)
  <2>1. CASE EnqueueJob(ch)
    <3>1. Command(ch).match \in Matches
      BY <1>0, <2>1, CommandType DEF EnqueueJob, AtWork
    <3>. QED  BY <1>0, <2>1, <3>1, EnqueuedIsInsert DEF EnqueueJob
  <2>2. CASE ~ EnqueueJob(ch)
    <3>1. UNCHANGED jobVars
      BY <1>3, <2>2 DEF BotStep, Poll, Refuse, Check, RefuseStranger, WriteDecision,
                        EnqueueFails, Reply, HandlerRaises
    <3>. QED  BY <1>1, <3>1
  <2>. QED  BY <2>1, <2>2
<1>4. ASSUME NEW m \in Matches, ApiStep(m) PROVE [Row!Next]_(Row!vars)
  <2>1. CASE \E s \in MatchStatus : Patch(m, s)
    BY <1>1, <2>1 DEF Patch
  <2>2. CASE RequestJob(m)
    BY <1>0, <2>2, EnqueuedIsInsert DEF RequestJob
  <2>3. CASE CancelJob(m)
    BY <2>3 DEF CancelJob, Row!Next
  <2>. QED  BY <1>4, <2>1, <2>2, <2>3 DEF ApiStep
<1>5. ASSUME NEW m \in Matches, WorkerStep(m) PROVE [Row!Next]_(Row!vars)
  BY <1>5 DEF WorkerStep, ClaimJob, CompleteJob, FailJob, DropJob, FlipMatch, Row!Next
<1>6. CASE Crash
  <2>1. ASSUME NEW m \in Matches, CrashWorker(m) PROVE [Row!Next]_(Row!vars)
    BY <2>1 DEF CrashWorker, Row!Next
  <2>2. CASE (\E ch \in Channels : CrashBot(ch)) \/ \E s \in Scorers : CrashScorer(s)
    BY <1>1, <2>2 DEF CrashBot, CrashScorer
  <2>. QED  BY <1>6, <2>1, <2>2 DEF Crash
<1>7. ASSUME NEW s \in Scorers, ScorerStep(s) PROVE [Row!Next]_(Row!vars)
  BY <1>1, <1>7 DEF ScorerStep, StartPass, AskLLM, StoreScore, ScoringFails
<1>8. ASSUME NEW m \in Matches, Ingest(m) PROVE [Row!Next]_(Row!vars)
  BY <1>1, <1>8 DEF Ingest
<1>9. ASSUME NEW ch \in Channels, NEW cmd \in Commands, Send(ch, cmd)
      PROVE  [Row!Next]_(Row!vars)
  BY <1>1, <1>9 DEF Send
<1>. QED  BY <1>2, <1>3, <1>4, <1>5, <1>6, <1>7, <1>8, <1>9 DEF Next

\* What the chats, the API, the scorer and the worker do to the job of a match are
\* the steps of an ApplyRow and no others, so what ApplyQueue was shown to implement
\* is what the properties of MatchReview rest on (enqueue_for_match, cancel, process_one).
THEOREM ReviewKeepsRows == Spec => Row!Spec
<1>1. Init => Row!Init
  BY DEF Init, Row!Init
<1>. QED  BY <1>1, RowStep, InvHolds, PTL DEF Spec, Row!Spec
=============================================================================
