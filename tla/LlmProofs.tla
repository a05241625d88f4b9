----------------------------- MODULE LlmProofs ------------------------------
(***************************************************************************)
(* Theorems about what is done with answers of the LLM: Letters, for any    *)
(* number of calls, letters and answers and any number of questions in a    *)
(* form, and Scoring, for any profiles, vacancies, ingestions, scorers,     *)
(* admins, prompts and experiments.                                         *)
(***************************************************************************)
EXTENDS Letters, Scoring, FiniteSetTheorems, WellFoundedInduction, TLAPS

-----------------------------------------------------------------------------
\* Cover letters.

Generating == {"llm", "find", "write"}

\* A call has targets left while it runs: a generation those at the end of what it
\* was called for, every other one its letter.  A row that it found is still there.
CallOk(c) ==
  /\ pc[c] = "idle" <=> todo[c] = <<>>
  /\ pc[c] \notin Generating => asked[c] = <<>>
  /\ pc[c] \in Generating => Len(todo[c]) <= Len(asked[c])
  /\ pc[c] \in Generating => \A i \in 1 .. Len(todo[c]) :
       todo[c][i] = asked[c][Len(asked[c]) - Len(todo[c]) + i]
  /\ pc[c] \notin Generating \cup {"idle"} => \E m \in Letters : todo[c] = <<m>>
  /\ pc[c] = "write" /\ copy[c] # NoRow => row[Head(todo[c])] # NoRow
  /\ pc[c] \in {"llmAgain", "reply", "remember"} => copy[c] # NoRow

CallInv == \A c \in Calls : CallOk(c)

IInv == TypeOK /\ CallInv /\ FormHasNoGap

-----------------------------------------------------------------------------

\* What a call drops and keeps of its targets.
LEMMA TailFacts ==
  ASSUME NEW s \in Seq(Targets), s # <<>>
  PROVE  /\ Head(s) \in Targets /\ Head(s) = s[1]
         /\ Tail(s) \in Seq(Targets) /\ Len(Tail(s)) = Len(s) - 1 /\ Len(s) \in Nat \ {0}
         /\ \A i \in 1 .. Len(s) - 1 : Tail(s)[i] = s[i + 1]
OBVIOUS

\* Numbers below the last one of a range.
LEMMA BeforeLast ==
  ASSUME NEW n \in Nat, NEW k \in Nat \ {0}, k <= n, NEW i \in 1 .. n - k + 1, i # n - k + 1
  PROVE  i \in 1 .. n - k /\ i \in 1 .. n
OBVIOUS

\* GoOn keeps the locals of a call in range.
LEMMA GoOnTypes ==
  ASSUME TypeOK, NEW c \in Calls, NEW rest \in Seq(Targets), GoOn(c, rest, "llm")
  PROVE  /\ pc' \in [Calls -> PC] /\ todo' \in [Calls -> Seq(Targets)]
         /\ copy' \in [Calls -> Row \cup {NoRow}] /\ text' \in [Calls -> Nat]
         /\ asked' \in [Calls -> Seq(Targets)]
<1>1. pc' \in [Calls -> PC]
  BY DEF GoOn, TypeOK, PC
<1>2. IF rest = <<>> THEN <<>> \in Seq(Targets) ELSE TRUE
  OBVIOUS
<1>3. asked' \in [Calls -> Seq(Targets)]
  BY <1>2 DEF GoOn, TypeOK
<1>. QED  BY <1>1, <1>3 DEF GoOn, TypeOK

\* A write makes a row or keeps it, and drops the target it was for.
LEMMA WriteRow ==
  ASSUME TypeOK, CallInv, NEW c \in Calls, UpdateRow(c) \/ InsertRow(c)
  PROVE  /\ pc[c] = "write" /\ todo[c] # <<>> /\ GoOn(c, Tail(todo[c]), "llm")
         /\ Head(todo[c]) \in Targets /\ Tail(todo[c]) \in Seq(Targets)
         /\ row' \in [Targets -> Row \cup {NoRow}] /\ row'[Head(todo[c])] # NoRow
         /\ \A t \in Targets : row[t] # NoRow => row'[t] # NoRow /\ row'[t].id = row[t].id
<1>. USE LettersAssumption
<1>1. pc[c] = "write" /\ todo[c] # <<>> /\ GoOn(c, Tail(todo[c]), "llm")
  BY DEF UpdateRow, InsertRow, CallInv, CallOk
<1>2. Head(todo[c]) \in Targets /\ Tail(todo[c]) \in Seq(Targets)
  BY <1>1, TailFacts DEF TypeOK
<1>. DEFINE h == Head(todo[c])
<1>3. CASE UpdateRow(c)
  <2>1. row[h] \in Row /\ row[h] # NoRow /\ text[c] \in Nat
    BY <1>1, <1>2, <1>3 DEF UpdateRow, TypeOK, CallInv, CallOk
  <2>2. row'[h] = [row[h] EXCEPT !.text = text[c]]
    BY <1>2, <1>3 DEF UpdateRow, TypeOK
  <2>3. row'[h] \in Row /\ row'[h].id = row[h].id
    BY <2>1, <2>2 DEF Row
  <2>4. \A t \in Targets : t # h => row'[t] = row[t]
    BY <1>3 DEF UpdateRow, TypeOK
  <2>5. row' = [row EXCEPT ![h] = row'[h]]
    BY <1>3, <2>2 DEF UpdateRow, TypeOK
  <2>. QED  BY <1>1, <1>2, <2>1, <2>3, <2>4, <2>5 DEF TypeOK
<1>4. CASE InsertRow(c)
  <2>1. row' = [row EXCEPT ![h] = [id |-> text[c], text |-> text[c], version |-> 1]] /\ row[h] = NoRow
    BY <1>4 DEF InsertRow, NoRowYet
  <2>2. [id |-> text[c], text |-> text[c], version |-> 1] \in Row
    BY DEF TypeOK, Row
  <2>. QED  BY <1>1, <1>2, <2>1, <2>2 DEF TypeOK
<1>. QED  BY <1>3, <1>4

\* Every step keeps the variables in range.
LEMMA TypeStep == TypeOK /\ CallInv /\ [Next]_vars => TypeOK'
<1>. SUFFICES ASSUME TypeOK, CallInv, [Next]_vars PROVE TypeOK'
  OBVIOUS
<1>. USE LettersAssumption DEF TypeOK, PC, Targets, Row, Generating, CallInv, CallOk
<1>0. CASE UNCHANGED vars
  BY <1>0 DEF vars, call
<1>1. ASSUME NEW c \in Calls, GenerateAnswersForVacancy(c) PROVE TypeOK'
  BY <1>1 DEF GenerateAnswersForVacancy, GoOn
<1>2. ASSUME NEW c \in Calls, Complete(c) PROVE TypeOK'
  <2>1. written' \in Nat /\ text' \in [Calls -> Nat] /\ pc' \in [Calls -> PC]
    BY <1>2 DEF Complete
  <2>. QED  BY <1>2, <2>1 DEF Complete
<1>3. ASSUME NEW c \in Calls, Find(c) PROVE TypeOK'
  <2>1. todo[c] \in Seq(Targets) /\ todo[c] # <<>>
    BY <1>3 DEF Find
  <2>2. row[Head(todo[c])] \in Row \cup {NoRow}
    BY <2>1, TailFacts
  <2>3. copy' \in [Calls -> Row \cup {NoRow}] /\ pc' \in [Calls -> PC]
    BY <1>3, <2>2 DEF Find
  <2>. QED  BY <1>3, <2>3 DEF Find
<1>4. ASSUME NEW c \in Calls, UpdateRow(c) PROVE TypeOK'
  <2>1. GoOn(c, Tail(todo[c]), "llm")
    BY <1>4, WriteRow
  <2>. QED  BY <1>4, <2>1, WriteRow, GoOnTypes DEF UpdateRow, InsertRow
<1>5. ASSUME NEW c \in Calls, InsertRow(c) PROVE TypeOK'
  <2>1. GoOn(c, Tail(todo[c]), "llm")
    BY <1>5, WriteRow
  <2>. QED  BY <1>5, <2>1, WriteRow, GoOnTypes DEF UpdateRow, InsertRow
<1>6. ASSUME NEW c \in Calls, GenerationFails(c) PROVE TypeOK'
  <2>1. GoOn(c, <<>>, "llm") /\ <<>> \in Seq(Targets)
    BY <1>6 DEF GenerationFails, LeftAfterFailure
  <2>. QED  BY <1>6, <2>1, GoOnTypes DEF GenerationFails
<1>7. ASSUME NEW c \in Calls, Reply(c) PROVE TypeOK'
  <2>1. PICK m \in Letters : todo[c] = <<m>>
    BY <1>7 DEF Reply, RecordAcceptedLetter, WriteAccepted, LookupDraft
  <2>2. Head(todo[c]) = m /\ m \in Targets /\ <<>> \in Seq(Targets)
    BY <2>1
  <2>3. copy[c] \in Row /\ text[c] \in Nat
    BY <1>7 DEF Reply
  <2>6. [copy[c] EXCEPT !.text = text[c], !.version = @ + 1] \in Row
    <3>1. copy[c].version + 1 \in Nat
      BY <2>3
    <3>. QED  BY <2>3, <3>1
  <2>4. shown' \in [Letters -> Row \cup {NoRow}]
    BY <1>7, <2>2, <2>6 DEF Reply
  <2>5. GoOn(c, <<>>, "llm")
    BY <1>7 DEF Reply
  <2>. QED  BY <1>7, <2>2, <2>4, <2>5, GoOnTypes DEF Reply
<1>8. ASSUME NEW c \in Calls, WriteAccepted(c) PROVE TypeOK'
  <2>1. PICK m \in Letters : todo[c] = <<m>>
    BY <1>8 DEF Reply, RecordAcceptedLetter, WriteAccepted, LookupDraft
  <2>2. Head(todo[c]) = m /\ m \in Targets /\ <<>> \in Seq(Targets)
    BY <2>1
  <2>. QED  BY <1>8, <2>2 DEF WriteAccepted
<1>9. ASSUME NEW c \in Calls, LookupDraft(c) PROVE TypeOK'
  <2>1. PICK m \in Letters : todo[c] = <<m>>
    BY <1>9 DEF Reply, RecordAcceptedLetter, WriteAccepted, LookupDraft
  <2>2. Head(todo[c]) = m /\ m \in Targets /\ <<>> \in Seq(Targets)
    BY <2>1
  <2>3. CASE row[m] = NoRow
    <3>1. GoOn(c, <<>>, "llm")
      BY <1>9, <2>2, <2>3 DEF LookupDraft
    <3>. QED  BY <1>9, <2>2, <3>1, GoOnTypes DEF LookupDraft
  <2>4. CASE row[m] # NoRow
    <3>1. /\ copy' = [copy EXCEPT ![c] = row[m]] /\ pc' = [pc EXCEPT ![c] = "remember"]
          /\ UNCHANGED <<row, written, todo, text, asked, shown, accepted, memory>>
      BY <1>9, <2>2, <2>4 DEF LookupDraft
    <3>2. row[m] \in Row \cup {NoRow}
      BY <2>2
    <3>. QED  BY <3>1, <3>2
  <2>. QED  BY <2>3, <2>4
<1>10. ASSUME NEW c \in Calls, RecordAcceptedLetter(c) PROVE TypeOK'
  <2>1. PICK m \in Letters : todo[c] = <<m>>
    BY <1>10 DEF Reply, RecordAcceptedLetter, WriteAccepted, LookupDraft
  <2>2. Head(todo[c]) = m /\ m \in Targets /\ <<>> \in Seq(Targets)
    BY <2>1
  <2>3. copy[c] \in Row
    BY <1>10 DEF RecordAcceptedLetter
  <2>4. memory' \subseteq Nat \X Nat
    BY <1>10, <2>3 DEF RecordAcceptedLetter
  <2>5. GoOn(c, <<>>, "llm")
    BY <1>10 DEF RecordAcceptedLetter
  <2>. QED  BY <1>10, <2>2, <2>4, <2>5, GoOnTypes DEF RecordAcceptedLetter
<1>11. ASSUME NEW c \in Calls, NEW m \in Letters, GenerateForMatch(c, m) PROVE TypeOK'
  <2>1. GoOn(c, <<m>>, "llm") /\ <<m>> \in Seq(Targets)
    BY <1>11 DEF GenerateForMatch
  <2>. QED  BY <1>11, <2>1, GoOnTypes DEF GenerateForMatch
<1>12. ASSUME NEW c \in Calls, NEW m \in Letters, RegenerateForMatch(c, m) PROVE TypeOK'
  <2>1. <<m>> \in Seq(Targets) /\ row[m] \in Row
    BY <1>12 DEF RegenerateForMatch
  <2>2. todo' \in [Calls -> Seq(Targets)] /\ copy' \in [Calls -> Row \cup {NoRow}]
    BY <1>12, <2>1 DEF RegenerateForMatch
  <2>3. pc' \in [Calls -> PC]
    BY <1>12 DEF RegenerateForMatch
  <2>. QED  BY <1>12, <2>2, <2>3 DEF RegenerateForMatch
<1>13. ASSUME NEW c \in Calls, NEW m \in Letters, Accept(c, m) PROVE TypeOK'
  <2>1. <<m>> \in Seq(Targets)
    OBVIOUS
  <2>2. todo' \in [Calls -> Seq(Targets)] /\ pc' \in [Calls -> PC]
    BY <1>13, <2>1 DEF Accept
  <2>. QED  BY <1>13, <2>2 DEF Accept
<1>14. ASSUME NEW c \in Calls, NEW a \in Answers, GenerateAnswer(c, a) PROVE TypeOK'
  <2>1. <<a>> \in Seq(Targets)
    OBVIOUS
  <2>2. GoOn(c, <<a>>, "llm")
    BY <1>14 DEF GenerateAnswer
  <2>. QED  BY <1>14, <2>1, <2>2, GoOnTypes DEF GenerateAnswer
<1>. QED  BY <1>0, <1>1, <1>2, <1>3, <1>4, <1>5, <1>6, <1>7, <1>8, <1>9, <1>10,
         <1>11, <1>12, <1>13, <1>14
         DEF Next

\* A call that another one does not touch stays right, as long as its row does.
LEMMA OthersKept ==
  ASSUME NEW d \in Calls, CallOk(d),
         pc'[d] = pc[d], todo'[d] = todo[d], asked'[d] = asked[d], copy'[d] = copy[d],
         pc[d] = "write" /\ copy[d] # NoRow => row'[Head(todo[d])] # NoRow
  PROVE  CallOk(d)'
BY DEF CallOk

\* A step that stores nothing leaves the forms alone, if its call answers none.
LEMMA NoForm ==
  ASSUME FormHasNoGap, NEW c \in Calls, row' = row, asked'[c] = <<>>, Len(todo'[c]) \in Nat,
         \A d \in Calls \ {c} : asked'[d] = asked[d] /\ todo'[d] = todo[d]
  PROVE  FormHasNoGap'
<1>. SUFFICES ASSUME NEW d \in Calls, NEW i \in 1 .. Len(asked'[d]) - Len(todo'[d])
              PROVE  row'[asked'[d][i]] # NoRow
  BY DEF FormHasNoGap
<1>1. CASE d = c
  <2>1. Len(asked'[c]) = 0
    OBVIOUS
  <2>. QED  BY <1>1, <2>1
<1>2. CASE d # c
  BY <1>2 DEF FormHasNoGap
<1>. QED  BY <1>1, <1>2

\* A call drops its first target when it has written it.
LEMMA CallStep == TypeOK /\ CallInv /\ [Next]_vars => CallInv'
<1>. SUFFICES ASSUME TypeOK, CallInv, [Next]_vars PROVE CallInv'
  OBVIOUS
<1>. USE LettersAssumption DEF TypeOK, PC, Targets, Row, Generating, CallInv, CallOk
<1>0. CASE UNCHANGED vars
  BY <1>0 DEF vars, call
<1>1. ASSUME NEW c \in Calls, GenerateAnswersForVacancy(c) PROVE CallInv'
  BY <1>1 DEF GenerateAnswersForVacancy, GoOn
<1>2. ASSUME NEW c \in Calls, Complete(c) PROVE CallInv'
  BY <1>2 DEF Complete
<1>3. ASSUME NEW c \in Calls, Find(c) PROVE CallInv'
  BY <1>3 DEF Find
<1>4. ASSUME NEW c \in Calls, UpdateRow(c) PROVE CallInv'
  <2>1. todo[c] # <<>> /\ GoOn(c, Tail(todo[c]), "llm") /\ pc[c] = "write"
    BY <1>4, WriteRow
  <2>2. \A d \in Calls \ {c} : CallOk(d)'
    <3>. TAKE d \in Calls \ {c}
    <3>1. /\ pc'[d] = pc[d] /\ todo'[d] = todo[d] /\ asked'[d] = asked[d] /\ copy'[d] = copy[d]
      BY <2>1 DEF GoOn
    <3>2. pc[d] = "write" => Head(todo[d]) \in Targets
      BY TailFacts
    <3>3. pc[d] = "write" /\ copy[d] # NoRow => row'[Head(todo[d])] # NoRow
      BY <1>4, <3>2, WriteRow
    <3>. QED  BY <3>1, <3>3, OthersKept
  <2>3. ASSUME Tail(todo[c]) = <<>> PROVE CallOk(c)'
    BY <2>1, <2>3 DEF GoOn
  <2>4. ASSUME Tail(todo[c]) # <<>> PROVE CallOk(c)'
    <3>1. /\ pc'[c] = "llm" /\ todo'[c] = Tail(todo[c]) /\ asked'[c] = asked[c] /\ copy'[c] = NoRow
      BY <2>1, <2>4 DEF GoOn
    <3>2. Len(todo'[c]) = Len(todo[c]) - 1 /\ Len(todo[c]) \in Nat \ {0}
      BY <2>1, <3>1, TailFacts
    <3>3. \A i \in 1 .. Len(todo'[c]) : todo'[c][i] = todo[c][i + 1]
      BY <2>1, <3>1, <3>2, TailFacts
    <3>4. Len(asked[c]) \in Nat
      OBVIOUS
    <3>5. \A i \in 1 .. Len(todo'[c]) :
            todo'[c][i] = asked'[c][Len(asked'[c]) - Len(todo'[c]) + i]
      <4>. TAKE i \in 1 .. Len(todo'[c])
      <4>1. i + 1 \in 1 .. Len(todo[c])
        BY <3>2
      <4>2. todo[c][i + 1] = asked[c][Len(asked[c]) - Len(todo[c]) + (i + 1)]
        BY <2>1, <4>1
      <4>3. Len(asked[c]) - Len(todo[c]) + (i + 1) = Len(asked'[c]) - Len(todo'[c]) + i
        BY <3>1, <3>2, <3>4
      <4>. QED  BY <3>1, <3>3, <4>2, <4>3
    <3>. QED  BY <2>1, <2>4, <3>1, <3>2, <3>4, <3>5
  <2>. HIDE DEF CallOk
  <2>. QED  BY <2>2, <2>3, <2>4
<1>5. ASSUME NEW c \in Calls, InsertRow(c) PROVE CallInv'
  <2>1. todo[c] # <<>> /\ GoOn(c, Tail(todo[c]), "llm") /\ pc[c] = "write"
    BY <1>5, WriteRow
  <2>2. \A d \in Calls \ {c} : CallOk(d)'
    <3>. TAKE d \in Calls \ {c}
    <3>1. /\ pc'[d] = pc[d] /\ todo'[d] = todo[d] /\ asked'[d] = asked[d] /\ copy'[d] = copy[d]
      BY <2>1 DEF GoOn
    <3>2. pc[d] = "write" => Head(todo[d]) \in Targets
      BY TailFacts
    <3>3. pc[d] = "write" /\ copy[d] # NoRow => row'[Head(todo[d])] # NoRow
      BY <1>5, <3>2, WriteRow
    <3>. QED  BY <3>1, <3>3, OthersKept
  <2>3. ASSUME Tail(todo[c]) = <<>> PROVE CallOk(c)'
    BY <2>1, <2>3 DEF GoOn
  <2>4. ASSUME Tail(todo[c]) # <<>> PROVE CallOk(c)'
    <3>1. /\ pc'[c] = "llm" /\ todo'[c] = Tail(todo[c]) /\ asked'[c] = asked[c] /\ copy'[c] = NoRow
      BY <2>1, <2>4 DEF GoOn
    <3>2. Len(todo'[c]) = Len(todo[c]) - 1 /\ Len(todo[c]) \in Nat \ {0}
      BY <2>1, <3>1, TailFacts
    <3>3. \A i \in 1 .. Len(todo'[c]) : todo'[c][i] = todo[c][i + 1]
      BY <2>1, <3>1, <3>2, TailFacts
    <3>4. Len(asked[c]) \in Nat
      OBVIOUS
    <3>5. \A i \in 1 .. Len(todo'[c]) :
            todo'[c][i] = asked'[c][Len(asked'[c]) - Len(todo'[c]) + i]
      <4>. TAKE i \in 1 .. Len(todo'[c])
      <4>1. i + 1 \in 1 .. Len(todo[c])
        BY <3>2
      <4>2. todo[c][i + 1] = asked[c][Len(asked[c]) - Len(todo[c]) + (i + 1)]
        BY <2>1, <4>1
      <4>3. Len(asked[c]) - Len(todo[c]) + (i + 1) = Len(asked'[c]) - Len(todo'[c]) + i
        BY <3>1, <3>2, <3>4
      <4>. QED  BY <3>1, <3>3, <4>2, <4>3
    <3>. QED  BY <2>1, <2>4, <3>1, <3>2, <3>4, <3>5
  <2>. HIDE DEF CallOk
  <2>. QED  BY <2>2, <2>3, <2>4
<1>6. ASSUME NEW c \in Calls, GenerationFails(c) PROVE CallInv'
  BY <1>6 DEF GenerationFails, GoOn, LeftAfterFailure
<1>7. ASSUME NEW c \in Calls, Reply(c) PROVE CallInv'
  BY <1>7 DEF Reply, GoOn
<1>8. ASSUME NEW c \in Calls, WriteAccepted(c) PROVE CallInv'
  BY <1>8 DEF WriteAccepted
<1>9. ASSUME NEW c \in Calls, LookupDraft(c) PROVE CallInv'
  <2>1. PICK m \in Letters : todo[c] = <<m>>
    BY <1>9 DEF LookupDraft
  <2>2. Head(todo[c]) = m /\ pc[c] = "lookup" /\ row' = row
    BY <1>9, <2>1 DEF LookupDraft
  <2>3. \A d \in Calls \ {c} : CallOk(d)'
    <3>. TAKE d \in Calls \ {c}
    <3>1. /\ pc'[d] = pc[d] /\ todo'[d] = todo[d] /\ asked'[d] = asked[d] /\ copy'[d] = copy[d]
      BY <1>9 DEF LookupDraft, GoOn
    <3>. QED  BY <2>2, <3>1
  <2>4. ASSUME row[m] = NoRow PROVE CallOk(c)'
    <3>1. GoOn(c, <<>>, "llm")
      BY <1>9, <2>2, <2>4 DEF LookupDraft
    <3>. QED  BY <3>1 DEF GoOn
  <2>5. ASSUME row[m] # NoRow PROVE CallOk(c)'
    <3>1. /\ copy' = [copy EXCEPT ![c] = row[m]] /\ pc' = [pc EXCEPT ![c] = "remember"]
          /\ UNCHANGED <<todo, asked>>
      BY <1>9, <2>2, <2>5 DEF LookupDraft
    <3>2. pc'[c] = "remember" /\ todo'[c] = <<m>> /\ asked'[c] = <<>> /\ copy'[c] = row[m]
      BY <2>1, <2>2, <3>1
    <3>. QED  BY <2>5, <3>2
  <2>. HIDE DEF CallOk
  <2>. QED  BY <2>3, <2>4, <2>5
<1>10. ASSUME NEW c \in Calls, RecordAcceptedLetter(c) PROVE CallInv'
  BY <1>10 DEF RecordAcceptedLetter, GoOn
<1>11. ASSUME NEW c \in Calls, NEW m \in Letters, GenerateForMatch(c, m) PROVE CallInv'
  BY <1>11 DEF GenerateForMatch, GoOn
<1>12. ASSUME NEW c \in Calls, NEW m \in Letters, RegenerateForMatch(c, m) PROVE CallInv'
  BY <1>12 DEF RegenerateForMatch
<1>13. ASSUME NEW c \in Calls, NEW m \in Letters, Accept(c, m) PROVE CallInv'
  BY <1>13 DEF Accept
<1>14. ASSUME NEW c \in Calls, NEW a \in Answers, GenerateAnswer(c, a) PROVE CallInv'
  BY <1>14 DEF GenerateAnswer, GoOn
<1>. QED  BY <1>0, <1>1, <1>2, <1>3, <1>4, <1>5, <1>6, <1>7, <1>8, <1>9, <1>10,
         <1>11, <1>12, <1>13, <1>14
         DEF Next

\* A row is inserted where there is none, and updated in place.
LEMMA RowStep == TypeOK /\ CallInv /\ [Next]_vars => (\A t \in Targets : row[t] # NoRow => row'[t] # NoRow /\ row'[t].id = row[t].id)
<1>. SUFFICES ASSUME TypeOK, CallInv, [Next]_vars PROVE (\A t \in Targets : row[t] # NoRow => row'[t] # NoRow /\ row'[t].id = row[t].id)
  OBVIOUS
<1>. USE LettersAssumption DEF TypeOK, PC, Targets, Row, Generating, CallInv, CallOk
<1>0. CASE UNCHANGED vars
  BY <1>0 DEF vars, call
<1>1. ASSUME NEW c \in Calls, GenerateAnswersForVacancy(c) PROVE (\A t \in Targets : row[t] # NoRow => row'[t] # NoRow /\ row'[t].id = row[t].id)
  BY <1>1 DEF GenerateAnswersForVacancy, GoOn
<1>2. ASSUME NEW c \in Calls, Complete(c) PROVE (\A t \in Targets : row[t] # NoRow => row'[t] # NoRow /\ row'[t].id = row[t].id)
  BY <1>2 DEF Complete
<1>3. ASSUME NEW c \in Calls, Find(c) PROVE (\A t \in Targets : row[t] # NoRow => row'[t] # NoRow /\ row'[t].id = row[t].id)
  BY <1>3 DEF Find
<1>4. ASSUME NEW c \in Calls, UpdateRow(c) PROVE (\A t \in Targets : row[t] # NoRow => row'[t] # NoRow /\ row'[t].id = row[t].id)
  BY <1>4, WriteRow
<1>5. ASSUME NEW c \in Calls, InsertRow(c) PROVE (\A t \in Targets : row[t] # NoRow => row'[t] # NoRow /\ row'[t].id = row[t].id)
  BY <1>5, WriteRow
<1>6. ASSUME NEW c \in Calls, GenerationFails(c) PROVE (\A t \in Targets : row[t] # NoRow => row'[t] # NoRow /\ row'[t].id = row[t].id)
  BY <1>6 DEF GenerationFails, GoOn, LeftAfterFailure
<1>7. ASSUME NEW c \in Calls, Reply(c) PROVE (\A t \in Targets : row[t] # NoRow => row'[t] # NoRow /\ row'[t].id = row[t].id)
  BY <1>7 DEF Reply, GoOn
<1>8. ASSUME NEW c \in Calls, WriteAccepted(c) PROVE (\A t \in Targets : row[t] # NoRow => row'[t] # NoRow /\ row'[t].id = row[t].id)
  BY <1>8 DEF WriteAccepted
<1>9. ASSUME NEW c \in Calls, LookupDraft(c) PROVE (\A t \in Targets : row[t] # NoRow => row'[t] # NoRow /\ row'[t].id = row[t].id)
  BY <1>9 DEF LookupDraft, GoOn
<1>10. ASSUME NEW c \in Calls, RecordAcceptedLetter(c) PROVE (\A t \in Targets : row[t] # NoRow => row'[t] # NoRow /\ row'[t].id = row[t].id)
  BY <1>10 DEF RecordAcceptedLetter, GoOn
<1>11. ASSUME NEW c \in Calls, NEW m \in Letters, GenerateForMatch(c, m) PROVE (\A t \in Targets : row[t] # NoRow => row'[t] # NoRow /\ row'[t].id = row[t].id)
  BY <1>11 DEF GenerateForMatch, GoOn
<1>12. ASSUME NEW c \in Calls, NEW m \in Letters, RegenerateForMatch(c, m) PROVE (\A t \in Targets : row[t] # NoRow => row'[t] # NoRow /\ row'[t].id = row[t].id)
  BY <1>12 DEF RegenerateForMatch
<1>13. ASSUME NEW c \in Calls, NEW m \in Letters, Accept(c, m) PROVE (\A t \in Targets : row[t] # NoRow => row'[t] # NoRow /\ row'[t].id = row[t].id)
  BY <1>13 DEF Accept
<1>14. ASSUME NEW c \in Calls, NEW a \in Answers, GenerateAnswer(c, a) PROVE (\A t \in Targets : row[t] # NoRow => row'[t] # NoRow /\ row'[t].id = row[t].id)
  BY <1>14 DEF GenerateAnswer, GoOn
<1>. QED  BY <1>0, <1>1, <1>2, <1>3, <1>4, <1>5, <1>6, <1>7, <1>8, <1>9, <1>10,
         <1>11, <1>12, <1>13, <1>14
         DEF Next

\* The target that a generation drops has a row.
LEMMA FormStep == TypeOK /\ CallInv /\ FormHasNoGap /\ [Next]_vars => FormHasNoGap'
<1>. SUFFICES ASSUME TypeOK, CallInv, FormHasNoGap, [Next]_vars PROVE FormHasNoGap'
  OBVIOUS
<1>. USE LettersAssumption DEF TypeOK, PC, Targets, Row, Generating, CallInv, CallOk, FormHasNoGap
<1>0. CASE UNCHANGED vars
  BY <1>0 DEF vars, call
<1>1. ASSUME NEW c \in Calls, GenerateAnswersForVacancy(c) PROVE FormHasNoGap'
  BY <1>1 DEF GenerateAnswersForVacancy, GoOn
<1>2. ASSUME NEW c \in Calls, Complete(c) PROVE FormHasNoGap'
  BY <1>2 DEF Complete
<1>3. ASSUME NEW c \in Calls, Find(c) PROVE FormHasNoGap'
  BY <1>3 DEF Find
<1>4. ASSUME NEW c \in Calls, UpdateRow(c) PROVE FormHasNoGap'
  <2>1. /\ todo[c] # <<>> /\ GoOn(c, Tail(todo[c]), "llm") /\ pc[c] = "write"
        /\ row'[Head(todo[c])] # NoRow /\ Head(todo[c]) = todo[c][1]
        /\ Len(todo[c]) \in Nat \ {0} /\ Len(Tail(todo[c])) = Len(todo[c]) - 1
    BY <1>4, WriteRow, TailFacts
  <2>2. \A t \in Targets : row[t] # NoRow => row'[t] # NoRow
    BY <1>4, WriteRow
  <2>. SUFFICES ASSUME NEW d \in Calls, NEW i \in 1 .. Len(asked'[d]) - Len(todo'[d])
                PROVE  row'[asked'[d][i]] # NoRow
    BY DEF FormHasNoGap
  <2>3. CASE d # c
    <3>1. asked'[d] = asked[d] /\ todo'[d] = todo[d]
      BY <2>1, <2>3 DEF GoOn
    <3>2. i \in 1 .. Len(asked[d]) /\ row[asked[d][i]] # NoRow
      BY <3>1
    <3>. QED  BY <2>2, <3>1, <3>2
  <2>4. CASE d = c /\ Tail(todo[c]) = <<>>
    <3>1. asked'[c] = <<>> /\ todo'[c] = <<>>
      BY <2>1, <2>4 DEF GoOn
    <3>. QED  BY <2>4, <3>1
  <2>5. CASE d = c /\ Tail(todo[c]) # <<>>
    <3>1. asked'[c] = asked[c] /\ todo'[c] = Tail(todo[c])
      BY <2>1, <2>5 DEF GoOn
    <3>2. Len(asked[c]) \in Nat /\ Len(todo[c]) <= Len(asked[c])
      BY <2>1
    <3>3. i \in 1 .. Len(asked[c]) - Len(todo[c]) + 1
      BY <2>1, <2>5, <3>1, <3>2
    <3>4. CASE i = Len(asked[c]) - Len(todo[c]) + 1
      <4>1. todo[c][1] = asked[c][i]
        BY <2>1, <3>2, <3>4
      <4>. QED  BY <2>1, <2>5, <3>1, <4>1
    <3>5. CASE i # Len(asked[c]) - Len(todo[c]) + 1
      <4>1. i \in 1 .. Len(asked[c]) - Len(todo[c]) /\ i \in 1 .. Len(asked[c])
        BY <2>1, <3>2, <3>3, <3>5, BeforeLast
      <4>2. row[asked[c][i]] # NoRow /\ asked[c][i] \in Targets
        BY <4>1
      <4>. QED  BY <2>2, <2>5, <3>1, <4>2
    <3>. QED  BY <3>4, <3>5
  <2>. QED  BY <2>3, <2>4, <2>5
<1>5. ASSUME NEW c \in Calls, InsertRow(c) PROVE FormHasNoGap'
  <2>1. /\ todo[c] # <<>> /\ GoOn(c, Tail(todo[c]), "llm") /\ pc[c] = "write"
        /\ row'[Head(todo[c])] # NoRow /\ Head(todo[c]) = todo[c][1]
        /\ Len(todo[c]) \in Nat \ {0} /\ Len(Tail(todo[c])) = Len(todo[c]) - 1
    BY <1>5, WriteRow, TailFacts
  <2>2. \A t \in Targets : row[t] # NoRow => row'[t] # NoRow
    BY <1>5, WriteRow
  <2>. SUFFICES ASSUME NEW d \in Calls, NEW i \in 1 .. Len(asked'[d]) - Len(todo'[d])
                PROVE  row'[asked'[d][i]] # NoRow
    BY DEF FormHasNoGap
  <2>3. CASE d # c
    <3>1. asked'[d] = asked[d] /\ todo'[d] = todo[d]
      BY <2>1, <2>3 DEF GoOn
    <3>2. i \in 1 .. Len(asked[d]) /\ row[asked[d][i]] # NoRow
      BY <3>1
    <3>. QED  BY <2>2, <3>1, <3>2
  <2>4. CASE d = c /\ Tail(todo[c]) = <<>>
    <3>1. asked'[c] = <<>> /\ todo'[c] = <<>>
      BY <2>1, <2>4 DEF GoOn
    <3>. QED  BY <2>4, <3>1
  <2>5. CASE d = c /\ Tail(todo[c]) # <<>>
    <3>1. asked'[c] = asked[c] /\ todo'[c] = Tail(todo[c])
      BY <2>1, <2>5 DEF GoOn
    <3>2. Len(asked[c]) \in Nat /\ Len(todo[c]) <= Len(asked[c])
      BY <2>1
    <3>3. i \in 1 .. Len(asked[c]) - Len(todo[c]) + 1
      BY <2>1, <2>5, <3>1, <3>2
    <3>4. CASE i = Len(asked[c]) - Len(todo[c]) + 1
      <4>1. todo[c][1] = asked[c][i]
        BY <2>1, <3>2, <3>4
      <4>. QED  BY <2>1, <2>5, <3>1, <4>1
    <3>5. CASE i # Len(asked[c]) - Len(todo[c]) + 1
      <4>1. i \in 1 .. Len(asked[c]) - Len(todo[c]) /\ i \in 1 .. Len(asked[c])
        BY <2>1, <3>2, <3>3, <3>5, BeforeLast
      <4>2. row[asked[c][i]] # NoRow /\ asked[c][i] \in Targets
        BY <4>1
      <4>. QED  BY <2>2, <2>5, <3>1, <4>2
    <3>. QED  BY <3>4, <3>5
  <2>. QED  BY <2>3, <2>4, <2>5
<1>6. ASSUME NEW c \in Calls, GenerationFails(c) PROVE FormHasNoGap'
  BY <1>6 DEF GenerationFails, GoOn, LeftAfterFailure
<1>7. ASSUME NEW c \in Calls, Reply(c) PROVE FormHasNoGap'
  <2>1. todo'[c] = <<>> /\ asked'[c] = <<>> /\ row' = row
    BY <1>7 DEF Reply, GoOn
  <2>2. \A d \in Calls \ {c} : asked'[d] = asked[d] /\ todo'[d] = todo[d]
    BY <1>7 DEF Reply, GoOn
  <2>. QED  BY <2>1, <2>2, NoForm
<1>8. ASSUME NEW c \in Calls, WriteAccepted(c) PROVE FormHasNoGap'
  BY <1>8 DEF WriteAccepted
<1>9. ASSUME NEW c \in Calls, LookupDraft(c) PROVE FormHasNoGap'
  <2>1. pc[c] = "lookup" /\ row' = row /\ asked[c] = <<>> /\ Len(todo[c]) \in Nat
    <3>1. pc[c] = "lookup" /\ row' = row
      BY <1>9 DEF LookupDraft
    <3>2. asked[c] = <<>>
      BY <3>1
    <3>3. todo[c] \in Seq(Targets)
      OBVIOUS
    <3>4. Len(todo[c]) \in Nat
      BY <3>3
    <3>. QED  BY <3>1, <3>2, <3>4
  <2>2. CASE row[Head(todo[c])] = NoRow
    <3>1. GoOn(c, <<>>, "llm")
      BY <1>9, <2>2 DEF LookupDraft
    <3>2. todo'[c] = <<>> /\ asked'[c] = <<>>
      BY <3>1 DEF GoOn
    <3>3. \A d \in Calls \ {c} : asked'[d] = asked[d] /\ todo'[d] = todo[d]
      BY <3>1 DEF GoOn
    <3>. QED  BY <2>1, <3>2, <3>3, NoForm
  <2>3. CASE row[Head(todo[c])] # NoRow
    <3>1. todo' = todo /\ asked' = asked
      BY <1>9, <2>3 DEF LookupDraft
    <3>. QED  BY <2>1, <3>1, NoForm
  <2>. QED  BY <2>2, <2>3
<1>10. ASSUME NEW c \in Calls, RecordAcceptedLetter(c) PROVE FormHasNoGap'
  BY <1>10 DEF RecordAcceptedLetter, GoOn
<1>11. ASSUME NEW c \in Calls, NEW m \in Letters, GenerateForMatch(c, m) PROVE FormHasNoGap'
  BY <1>11 DEF GenerateForMatch, GoOn
<1>12. ASSUME NEW c \in Calls, NEW m \in Letters, RegenerateForMatch(c, m) PROVE FormHasNoGap'
  <2>1. todo[c] = <<>> /\ pc[c] = "idle" /\ asked[c] = <<>>
    BY <1>12 DEF RegenerateForMatch
  <2>2. row' = row /\ asked'[c] = <<>> /\ todo'[c] = <<m>>
    BY <1>12, <2>1 DEF RegenerateForMatch
  <2>3. \A d \in Calls \ {c} : asked'[d] = asked[d] /\ todo'[d] = todo[d]
    BY <1>12 DEF RegenerateForMatch
  <2>4. Len(todo'[c]) \in Nat
    BY <2>2
  <2>. QED  BY <2>2, <2>3, <2>4, NoForm
<1>13. ASSUME NEW c \in Calls, NEW m \in Letters, Accept(c, m) PROVE FormHasNoGap'
  BY <1>13 DEF Accept
<1>14. ASSUME NEW c \in Calls, NEW a \in Answers, GenerateAnswer(c, a) PROVE FormHasNoGap'
  BY <1>14 DEF GenerateAnswer, GoOn
<1>. QED  BY <1>0, <1>1, <1>2, <1>3, <1>4, <1>5, <1>6, <1>7, <1>8, <1>9, <1>10,
         <1>11, <1>12, <1>13, <1>14
         DEF Next

-----------------------------------------------------------------------------

\* There are no rows and no calls at first.
LEMMA InitInv == Init => IInv
<1>. SUFFICES ASSUME Init PROVE IInv
  OBVIOUS
<1>1. TypeOK
  <2>1. <<>> \in Seq(Targets)
    OBVIOUS
  <2>. QED  BY <2>1 DEF Init, TypeOK, PC
<1>2. CallInv
  BY DEF Init, CallInv, CallOk, Generating
<1>3. FormHasNoGap
  BY DEF Init, FormHasNoGap
<1>. QED  BY <1>1, <1>2, <1>3 DEF IInv

\* The invariant is inductive.
LEMMA StepInv == IInv /\ [Next]_vars => IInv'
BY TypeStep, CallStep, FormStep DEF IInv

\* It holds throughout every behaviour.
LEMMA Inductive == Spec => []IInv
<1>. QED  BY InitInv, StepInv, PTL DEF Spec

\* Drafts, answers, style memory and the calls in progress stay in range.
THEOREM TypeCorrect == Spec => []TypeOK
<1>1. IInv => TypeOK
  BY DEF IInv
<1>. QED  BY <1>1, Inductive, PTL

\* However many generations of one target await the LLM together, the first INSERT
\* makes its row and every later write keeps it (generate_for_match, generate_answer).
THEOREM RowsStay == Spec => RowsKeepTheirId
<1>. DEFINE Kept == \A t \in Targets : row[t] # NoRow => row'[t] # NoRow /\ row'[t].id = row[t].id
<1>1. IInv /\ [Next]_vars => [Kept]_vars
  BY RowStep DEF IInv
<1>. QED  BY <1>1, Inductive, PTL DEF Spec, RowsKeepTheirId

\* generate_answers_for_vacancy leaves no gap: the questions before the one that it
\* is at are answered, for a form of any length and whatever fails.
THEOREM FormIsGapless == Spec => []FormHasNoGap
<1>1. IInv => FormHasNoGap
  BY DEF IInv
<1>. QED  BY <1>1, Inductive, PTL

-----------------------------------------------------------------------------
\* Scoring.

\* The variant of an experiment for the user of a match.
VariantFor(x, m) == PickVariant(Variants[x], Bucket[UserOf(m)])
Given == {VariantFor(x, m) : x \in Experiments, m \in Matches}

StampValues ==
  [prompt : Prompts \cup {Nothing}] \cup [experiment : Experiments \cup {Nothing}, variant : Given]
OutcomeRows ==
  [experiment : Experiments \cup {Nothing}, variant : Given, user : Users, vacancy : Vacancies]
PassStates ==
  [pc : {"idle", "next", "assign", "score", "record"}, todo : SUBSET Matches,
   match : Matches \cup {Nothing}, experiment : Experiments \cup {Nothing},
   variant : Given \cup {Nothing}]
IngestStates ==
  [pc : {"idle", "raised", "find", "insert"}, listed : SUBSET Profiles, todo : SUBSET Profiles,
   batch : SUBSET Vacancies, missing : SUBSET Matches]
ActivationsOf(t) == [table : {t}, id : Ids(t), seen : SUBSET Ids(t)]

TablesTypeOK ==
  /\ known \in [Tables -> SUBSET (Prompts \cup Experiments)]
  /\ active \in [Tables -> SUBSET (Prompts \cup Experiments)]
  /\ \A t \in Tables : active[t] \subseteq known[t] /\ known[t] \subseteq Ids(t)
  /\ admin \in [Admins -> {NoChange} \cup ActivationsOf("prompts") \cup ActivationsOf("experiments")]

MatchesTypeOK ==
  /\ profile \in [Profiles -> {"active", "inactive", "deleted"}]
  /\ match \in [Matches -> {"none", "new", "scored"}]
  /\ ingest \in [Ingesters -> IngestStates]

ScoresTypeOK ==
  /\ stamps \in [Matches -> SUBSET StampValues]
  /\ outcomes \subseteq OutcomeRows
  /\ pass \in [Scorers -> PassStates]

ScoringTypeOK == TablesTypeOK /\ MatchesTypeOK /\ ScoresTypeOK

\* At most one row of a table is active, and experiments are well-formed.
OneActive ==
  /\ \A t \in Tables : active[t] = {} \/ \E id \in Ids(t) : active[t] = {id}
  /\ \A x \in known["experiments"] : WellFormed(x)
  /\ \A a \in Admins : admin[a] # NoChange /\ admin[a].table = "experiments" => WellFormed(admin[a].id)

TablesInv == TablesTypeOK /\ OneActive

\* A match is in hand from the reading of the active experiment on; its variant is the
\* user's in a well-formed experiment, and what is recorded was stored.
PassOk(s) ==
  /\ pass[s].pc \in {"assign", "score", "record"} => pass[s].match \in Matches
  /\ pass[s].pc \in {"idle", "next", "assign"} => pass[s].variant = Nothing
  /\ pass[s].variant # Nothing =>
       \E x \in Experiments : WellFormed(x) /\ pass[s].variant = VariantFor(x, pass[s].match)
  /\ pass[s].pc = "record" =>
       /\ pass[s].variant # Nothing
       /\ [experiment |-> pass[s].experiment, variant |-> pass[s].variant] \in stamps[pass[s].match]

\* An outcome is of a score of a match of its user with its vacancy, under the user's
\* variant in a well-formed experiment.
OutcomeOf(o, m) ==
  /\ UserOf(m) = o.user /\ m[2] = o.vacancy
  /\ [experiment |-> o.experiment, variant |-> o.variant] \in stamps[m]
  /\ \E x \in Experiments : WellFormed(x) /\ o.variant = VariantFor(x, m)

OutcomeOk(o) == \E m \in Matches : OutcomeOf(o, m)

ScoresInv == /\ ScoresTypeOK
             /\ \A s \in Scorers : PassOk(s)
             /\ \A o \in outcomes : OutcomeOk(o)

\* The profiles that an ingestion has done have their matches, all but those it is
\* about to insert.
IngestOk(i) ==
  /\ ingest[i].pc \in {"idle", "raised"} => ingest[i].listed = {}
  /\ ingest[i].pc = "find" => ingest[i].missing = {}
  /\ \A p \in ingest[i].listed \ ingest[i].todo, v \in ingest[i].batch :
       \/ profile[p] = "deleted"
       \/ match[<<p, v>>] # "none"
       \/ <<p, v>> \in ingest[i].missing

MatchesInv == MatchesTypeOK /\ \A i \in Ingesters : IngestOk(i)

ScoringInv == TablesInv /\ ScoresInv /\ MatchesInv

\* Who changes which group of variables.
LEMMA Movers ==
  ASSUME [ScoringNext]_scoringVars
  PROVE  /\ UNCHANGED <<known, active, admin>> \/ \E a \in Admins : AdminStep(a)
         /\ UNCHANGED <<stamps, outcomes, pass>> \/ \E s \in Scorers : ScorerStep(s)
         /\ UNCHANGED ingest \/ \E i \in Ingesters : IngestStep(i)
<1>. USE DEF scoringVars
<1>1. CASE UNCHANGED scoringVars
  BY <1>1
<1>2. CASE \E p \in Profiles : SetActive(p) \/ DeleteProfile(p)
  BY <1>2 DEF SetActive, DeleteProfile
<1>3. CASE \E m \in Matches : CreateMatch(m)
  BY <1>3 DEF CreateMatch
<1>4. ASSUME NEW i \in Ingesters, IngestStep(i)
      PROVE  UNCHANGED <<known, active, admin>> /\ UNCHANGED <<stamps, outcomes, pass>>
  BY <1>4 DEF IngestStep, Ingest, FindExisting, BulkInsert, IngestFails
<1>5. ASSUME NEW a \in Admins, AdminStep(a)
      PROVE  UNCHANGED <<stamps, outcomes, pass>> /\ UNCHANGED ingest
  BY <1>5 DEF AdminStep, AddRow, Deactivate, Activate, ActivationFails
<1>6. ASSUME NEW s \in Scorers, ScorerStep(s)
      PROVE  UNCHANGED <<known, active, admin>> /\ UNCHANGED ingest
  BY <1>6 DEF ScorerStep, StartPass, GetActive, AssignVariant, StoreScore, ScoringFails, RecordOutcome
<1>. QED  BY <1>1, <1>2, <1>3, <1>4, <1>5, <1>6 DEF ScoringNext

-----------------------------------------------------------------------------
\* Prompts and experiments.

\* The tables.
LEMMA TableIds ==
  /\ \A t \in Tables : Ids(t) \subseteq Prompts \cup Experiments
  /\ Tables = {"prompts", "experiments"} /\ Ids("experiments") = Experiments /\ Ids("prompts") = Prompts
BY DEF Tables, Ids

\* An activation in progress is of a row of one table.
LEMMA ActivationParts ==
  ASSUME TablesTypeOK, NEW a \in Admins, admin[a] # NoChange
  PROVE  /\ admin[a].table \in Tables
         /\ admin[a].id \in Ids(admin[a].table)
BY DEF TablesTypeOK, ActivationsOf, Tables

\* Every step of an admin keeps one row of a table active at most.
LEMMA TablesStep == TablesInv /\ [ScoringNext]_scoringVars => TablesInv'
<1>. SUFFICES ASSUME TablesInv, [ScoringNext]_scoringVars PROVE TablesInv'
  OBVIOUS
<1>t. TablesTypeOK /\ OneActive
  BY DEF TablesInv
<1>1. CASE UNCHANGED <<known, active, admin>>
  BY <1>t, <1>1 DEF TablesInv, TablesTypeOK, OneActive
<1>2. ASSUME NEW a \in Admins, AddRow(a) PROVE TablesInv'
  <2>1. PICK t \in Tables, id \in Prompts \cup Experiments :
          /\ id \in Ids(t) /\ MayAdd(t, id)
          /\ known' = [known EXCEPT ![t] = @ \cup {id}]
          /\ active' \in {active, [active EXCEPT ![t] = IF @ = {} THEN {id} ELSE @]}
    BY <1>2, TableIds DEF AddRow
  <2>2. admin' = admin
    BY <1>2 DEF AddRow
  <2>3. /\ known'[t] = known[t] \cup {id} /\ \A u \in Tables \ {t} : known'[u] = known[u]
        /\ known' \in [Tables -> SUBSET (Prompts \cup Experiments)]
    BY <1>t, <2>1, TableIds DEF TablesTypeOK
  <2>4. /\ active'[t] = active[t] \/ (active[t] = {} /\ active'[t] = {id})
        /\ \A u \in Tables \ {t} : active'[u] = active[u]
        /\ active' \in [Tables -> SUBSET (Prompts \cup Experiments)]
    BY <1>t, <2>1, TableIds DEF TablesTypeOK
  <2>5. TablesTypeOK'
    BY <1>t, <2>1, <2>2, <2>3, <2>4 DEF TablesTypeOK
  <2>6. \A u \in Tables : active'[u] = {} \/ \E x \in Ids(u) : active'[u] = {x}
    BY <1>t, <2>1, <2>4 DEF OneActive
  <2>7. \A x \in known'["experiments"] : WellFormed(x)
    BY <1>t, <2>1, <2>3 DEF OneActive, MayAdd, Valid, Tables
  <2>. QED  BY <1>t, <2>2, <2>5, <2>6, <2>7 DEF TablesInv, OneActive
<1>3. ASSUME NEW a \in Admins, Deactivate(a) PROVE TablesInv'
  <2>1. PICK t \in Tables, id \in Prompts \cup Experiments :
          /\ id \in Ids(t) /\ MayAdd(t, id)
          /\ admin' = [admin EXCEPT ![a] = [table |-> t, id |-> id, seen |-> active[t]]]
    BY <1>3, TableIds DEF Deactivate
  <2>2. UNCHANGED <<known, active>>
    BY <1>3 DEF Deactivate
  <2>. DEFINE c == [table |-> t, id |-> id, seen |-> active[t]]
  <2>3. c \in ActivationsOf("prompts") \cup ActivationsOf("experiments")
    BY <1>t, <2>1 DEF ActivationsOf, Tables, TablesTypeOK
  <2>4. c.table = "experiments" => WellFormed(c.id)
    BY <2>1 DEF MayAdd, Valid
  <2>. HIDE DEF c
  <2>5. /\ admin' \in [Admins -> {NoChange} \cup ActivationsOf("prompts") \cup ActivationsOf("experiments")]
        /\ admin'[a] = c /\ \A b \in Admins \ {a} : admin'[b] = admin[b]
    BY <1>t, <2>1, <2>3 DEF TablesTypeOK, c
  <2>. QED  BY <1>t, <2>2, <2>4, <2>5 DEF TablesInv, TablesTypeOK, OneActive
<1>4. ASSUME NEW a \in Admins, Activate(a) PROVE TablesInv'
  <2>. DEFINE t == admin[a].table
              id == admin[a].id
  <2>1. t \in Tables /\ id \in Ids(t)
    BY <1>t, <1>4, ActivationParts DEF Activate
  <2>2. /\ known' = [known EXCEPT ![t] = @ \cup {id}]
        /\ active' = [active EXCEPT ![t] = {id}]
        /\ admin' = [admin EXCEPT ![a] = NoChange]
    BY <1>4 DEF Activate
  <2>3. t = "experiments" => WellFormed(id)
    BY <1>t, <1>4 DEF OneActive, Activate
  <2>. HIDE DEF t, id
  <2>4. /\ known'[t] = known[t] \cup {id} /\ \A u \in Tables \ {t} : known'[u] = known[u]
        /\ active'[t] = {id} /\ \A u \in Tables \ {t} : active'[u] = active[u]
        /\ known' \in [Tables -> SUBSET (Prompts \cup Experiments)]
        /\ active' \in [Tables -> SUBSET (Prompts \cup Experiments)]
    BY <1>t, <2>1, <2>2, TableIds DEF TablesTypeOK
  <2>5. /\ admin' \in [Admins -> {NoChange} \cup ActivationsOf("prompts") \cup ActivationsOf("experiments")]
        /\ \A b \in Admins : admin'[b] = NoChange \/ admin'[b] = admin[b]
    BY <1>t, <2>2 DEF TablesTypeOK
  <2>6. TablesTypeOK'
    BY <1>t, <2>1, <2>4, <2>5 DEF TablesTypeOK
  <2>7. \A u \in Tables : active'[u] = {} \/ \E x \in Ids(u) : active'[u] = {x}
    BY <1>t, <2>1, <2>4 DEF OneActive
  <2>8. \A x \in known'["experiments"] : WellFormed(x)
    BY <1>t, <2>1, <2>3, <2>4 DEF OneActive, Tables
  <2>. QED  BY <1>t, <2>5, <2>6, <2>7, <2>8 DEF TablesInv, OneActive
<1>5. ASSUME NEW a \in Admins, ActivationFails(a) PROVE TablesInv'
  <2>1. UNCHANGED <<known, active>>
    BY <1>5 DEF ActivationFails
  <2>2. /\ admin' \in [Admins -> {NoChange} \cup ActivationsOf("prompts") \cup ActivationsOf("experiments")]
        /\ \A b \in Admins : admin'[b] = NoChange \/ admin'[b] = admin[b]
    BY <1>t, <1>5 DEF TablesTypeOK, ActivationFails
  <2>. QED  BY <1>t, <2>1, <2>2 DEF TablesInv, TablesTypeOK, OneActive
<1>. QED  BY <1>1, <1>2, <1>3, <1>4, <1>5, Movers DEF AdminStep

\* Nothing is known at start.
LEMMA TablesInit == ScoringInit => TablesInv
BY DEF ScoringInit, TablesInv, TablesTypeOK, OneActive, Tables

LEMMA TablesInvariance == ScoringSpec => []TablesInv
<1>. QED  BY TablesInit, TablesStep, PTL DEF ScoringSpec

\* However the activations of several admins overlap, a table that has an active row
\* has exactly one after every step (the partial unique index, PromptRegistry.set_active).
THEOREM OneStaysActive == ScoringSpec => AlwaysOneActive
<1>1. TablesInv /\ TablesInv' /\ [ScoringNext]_scoringVars =>
        [\A t \in Tables : active[t] # {} => Cardinality(active'[t]) = 1]_scoringVars
  <2>. SUFFICES ASSUME TablesInv, TablesInv', ScoringNext, NEW t \in Tables, active[t] # {}
                PROVE  Cardinality(active'[t]) = 1
    OBVIOUS
  <2>1. active'[t] # {}
    <3>1. CASE UNCHANGED active
      BY <3>1
    <3>2. ASSUME NEW a \in Admins, AddRow(a) PROVE active'[t] # {}
      BY <3>2 DEF AddRow, TablesInv, TablesTypeOK
    <3>3. ASSUME NEW a \in Admins, Activate(a) PROVE active'[t] # {}
      BY <3>3 DEF Activate, TablesInv, TablesTypeOK
    <3>. QED  BY <3>1, <3>2, <3>3, Movers DEF AdminStep, Deactivate, ActivationFails
  <2>2. PICK x : active'[t] = {x}
    BY <2>1 DEF TablesInv, OneActive
  <2>. QED  BY <2>2, FS_Singleton
<1>. QED  BY TablesInvariance, <1>1, PTL DEF ScoringSpec, AlwaysOneActive

-----------------------------------------------------------------------------
\* Scores and outcomes.

\* What a scorer's step does to its pass: the state is new for the scorer only.
LEMMA PassReplaced ==
  ASSUME ScoresTypeOK, NEW s \in Scorers, NEW new \in PassStates, pass' = [pass EXCEPT ![s] = new]
  PROVE  /\ pass' \in [Scorers -> PassStates] /\ pass'[s] = new
         /\ \A q \in Scorers \ {s} : pass'[q] = pass[q]
BY DEF ScoresTypeOK

\* A scorer that goes on has no match in hand.
LEMMA PassGoesOn ==
  ASSUME ScoresTypeOK, NEW s \in Scorers, NextMatch(s)
  PROVE  /\ pass' \in [Scorers -> PassStates]
         /\ pass'[s].pc \in {"idle", "next"} /\ pass'[s].variant = Nothing
         /\ \A q \in Scorers \ {s} : pass'[q] = pass[q]
<1>. DEFINE new == IF pass[s].todo = {} THEN NoPass
                   ELSE [NoPass EXCEPT !.pc = "next", !.todo = pass[s].todo]
<1>1. pass' = [pass EXCEPT ![s] = new]
  BY DEF NextMatch, ScoresTypeOK
<1>2. pass[s].todo \in SUBSET Matches
  BY DEF ScoresTypeOK, PassStates
<1>3. new \in PassStates /\ new.pc \in {"idle", "next"} /\ new.variant = Nothing
  BY <1>2 DEF PassStates, NoPass
<1>. HIDE DEF new
<1>. QED  BY <1>1, <1>3, PassReplaced

\* A pass that is left alone, or has nothing in hand, is as it should be.
LEMMA PassStays ==
  ASSUME ScoresTypeOK, NEW s \in Scorers, PassOk(s), \A m \in Matches : stamps[m] \subseteq stamps'[m],
         pass'[s] = pass[s] \/ (pass'[s].pc \in {"idle", "next"} /\ pass'[s].variant = Nothing)
  PROVE  PassOk(s)'
BY DEF PassOk

\* Outcomes stay what they are while stamps are only added.
LEMMA OutcomeStays ==
  ASSUME ScoresInv, \A m \in Matches : stamps[m] \subseteq stamps'[m], NEW o \in outcomes
  PROVE  OutcomeOk(o)'
<1>1. PICK m \in Matches : OutcomeOf(o, m)
  BY DEF ScoresInv, OutcomeOk
<1>. QED  BY <1>1 DEF OutcomeOk, OutcomeOf

\* A step of a pass that leaves scores and outcomes alone.
LEMMA PassMoves ==
  ASSUME ScoresInv, NEW s \in Scorers, UNCHANGED <<stamps, outcomes>>,
         pass' \in [Scorers -> PassStates], PassOk(s)',
         \A q \in Scorers \ {s} : pass'[q] = pass[q]
  PROVE  ScoresInv'
<1>1. ScoresTypeOK'
  BY DEF ScoresInv, ScoresTypeOK
<1>2. \A q \in Scorers : PassOk(q)'
  BY PassStays DEF ScoresInv
<1>3. \A o \in outcomes' : OutcomeOk(o)'
  BY OutcomeStays
<1>. QED  BY <1>1, <1>2, <1>3 DEF ScoresInv

\* A score is stored under the version, or under the experiment and the variant.
LEMMA StampType ==
  ASSUME TablesTypeOK, ScoresTypeOK, NEW s \in Scorers, NEW version \in ResolvedVersion
  PROVE  Stamp(s, version) \in StampValues
<1>1. version \in Prompts \cup {Nothing}
  BY TableIds DEF ResolvedVersion, TablesTypeOK
<1>2. pass[s].experiment \in Experiments \cup {Nothing} /\ pass[s].variant \in Given \cup {Nothing}
  BY DEF ScoresTypeOK, PassStates
<1>. QED  BY <1>1, <1>2 DEF Stamp, StampValues

\* The next match is taken in hand without a variant.
LEMMA GetActiveStep ==
  ASSUME TablesInv, ScoresInv, NEW s \in Scorers, GetActive(s)
  PROVE  ScoresInv'
<1>t. ScoresTypeOK /\ pass[s] \in PassStates
  BY DEF ScoresInv, ScoresTypeOK
<1>1. PICK m \in pass[s].todo, x \in active["experiments"] \cup {Nothing} :
        pass' = [pass EXCEPT ![s].pc = IF x = Nothing THEN "score" ELSE "assign",
                             ![s].todo = @ \ {m}, ![s].match = m, ![s].experiment = x]
  BY DEF GetActive
<1>2. m \in Matches /\ x \in Experiments \cup {Nothing}
  BY <1>t, TableIds DEF PassStates, TablesInv, TablesTypeOK
<1>. DEFINE new == [pass[s] EXCEPT !.pc = IF x = Nothing THEN "score" ELSE "assign",
                                   !.todo = @ \ {m}, !.match = m, !.experiment = x]
<1>3. pass' = [pass EXCEPT ![s] = new]
  BY <1>t, <1>1 DEF ScoresTypeOK
<1>4. new \in PassStates /\ new.match \in Matches /\ new.variant = pass[s].variant
      /\ new.pc \in {"score", "assign"}
  BY <1>t, <1>2 DEF PassStates
<1>5. pass[s].variant = Nothing
  BY DEF GetActive, ScoresInv, PassOk
<1>. HIDE DEF new
<1>6. /\ pass' \in [Scorers -> PassStates] /\ pass'[s] = new
      /\ \A q \in Scorers \ {s} : pass'[q] = pass[q]
  BY <1>t, <1>3, <1>4, PassReplaced
<1>7. PassOk(s)'
  BY <1>4, <1>5, <1>6 DEF PassOk
<1>. QED  BY <1>6, <1>7, PassMoves DEF GetActive

\* The variant is that of the user in an active experiment.
LEMMA AssignVariantStep ==
  ASSUME TablesInv, ScoresInv, NEW s \in Scorers, AssignVariant(s)
  PROVE  ScoresInv'
<1>t. ScoresTypeOK /\ pass[s] \in PassStates
  BY DEF ScoresInv, ScoresTypeOK
<1>. PICK m \in Matches : m = pass[s].match
  BY DEF ScoresInv, PassOk, AssignVariant
<1>1. PICK x \in active["experiments"] :
        pass' = [pass EXCEPT ![s].pc = "score", ![s].variant = VariantFor(x, m)]
  BY DEF AssignVariant, VariantFor
<1>2. x \in Experiments /\ WellFormed(x)
  BY TableIds DEF TablesInv, TablesTypeOK, OneActive
<1>3. VariantFor(x, m) \in Given
  BY <1>2 DEF Given
<1>. DEFINE new == [pass[s] EXCEPT !.pc = "score", !.variant = VariantFor(x, m)]
<1>4. pass' = [pass EXCEPT ![s] = new]
  BY <1>t, <1>1 DEF ScoresTypeOK
<1>5. new \in PassStates /\ new.match = m /\ new.variant = VariantFor(x, m) /\ new.pc = "score"
  BY <1>t, <1>3 DEF PassStates
<1>. HIDE DEF new
<1>6. /\ pass' \in [Scorers -> PassStates] /\ pass'[s] = new
      /\ \A q \in Scorers \ {s} : pass'[q] = pass[q]
  BY <1>t, <1>4, <1>5, PassReplaced
<1>7. PassOk(s)'
  BY <1>2, <1>5, <1>6 DEF PassOk
<1>. QED  BY <1>6, <1>7, PassMoves DEF AssignVariant

\* A score that was given by a variant is stored under it before it is recorded.
LEMMA StoreScoreStep ==
  ASSUME TablesInv, ScoresInv, NEW s \in Scorers, StoreScore(s)
  PROVE  ScoresInv'
<1>t. ScoresTypeOK /\ pass[s] \in PassStates /\ TablesTypeOK /\ PassOk(s)
  BY DEF ScoresInv, ScoresTypeOK, TablesInv
<1>. PICK m \in Matches : m = pass[s].match
  BY <1>t DEF PassOk, StoreScore
<1>1. PICK version \in ResolvedVersion : stamps' = [stamps EXCEPT ![m] = @ \cup {Stamp(s, version)}]
  BY DEF StoreScore
<1>2. /\ stamps' \in [Matches -> SUBSET StampValues]
      /\ stamps'[m] = stamps[m] \cup {Stamp(s, version)}
      /\ \A n \in Matches : stamps[n] \subseteq stamps'[n]
  BY <1>t, <1>1, StampType DEF ScoresTypeOK
<1>3. /\ pass' \in [Scorers -> PassStates] /\ PassOk(s)'
      /\ \A q \in Scorers \ {s} : pass'[q] = pass[q]
  <2>1. CASE pass[s].variant = Nothing
    <3>1. NextMatch(s)
      BY <2>1 DEF StoreScore
    <3>. QED  BY <1>t, <1>2, <3>1, PassGoesOn, PassStays
  <2>2. CASE pass[s].variant # Nothing
    <3>. DEFINE new == [pass[s] EXCEPT !.pc = "record"]
    <3>1. pass' = [pass EXCEPT ![s] = new]
      BY <1>t, <2>2 DEF StoreScore, ScoresTypeOK
    <3>2. /\ new \in PassStates /\ new.match = m /\ new.variant = pass[s].variant
          /\ new.pc = "record" /\ new.experiment = pass[s].experiment
      BY <1>t DEF PassStates
    <3>. HIDE DEF new
    <3>3. /\ pass' \in [Scorers -> PassStates] /\ pass'[s] = new
          /\ \A q \in Scorers \ {s} : pass'[q] = pass[q]
      BY <1>t, <3>1, <3>2, PassReplaced
    <3>4. [experiment |-> new.experiment, variant |-> new.variant] \in stamps'[m]
      BY <1>2, <2>2, <3>2 DEF Stamp
    <3>5. PassOk(s)'
      BY <1>t, <2>2, <3>2, <3>3, <3>4 DEF PassOk
    <3>. QED  BY <3>3, <3>5
  <2>. QED  BY <2>1, <2>2
<1>4. \A q \in Scorers : PassOk(q)'
  BY <1>t, <1>2, <1>3, PassStays DEF ScoresInv
<1>5. outcomes' = outcomes
  BY DEF StoreScore
<1>6. \A o \in outcomes : OutcomeOk(o)'
  BY <1>2, OutcomeStays
<1>7. ScoresTypeOK'
  BY <1>t, <1>2, <1>3, <1>5 DEF ScoresTypeOK
<1>. QED  BY <1>4, <1>5, <1>6, <1>7 DEF ScoresInv

\* What is recorded was stored.
LEMMA RecordOutcomeStep ==
  ASSUME ScoresInv, NEW s \in Scorers, RecordOutcome(s)
  PROVE  ScoresInv'
<1>t. ScoresTypeOK /\ pass[s] \in PassStates /\ PassOk(s)
  BY DEF ScoresInv, ScoresTypeOK
<1>. PICK m \in Matches : m = pass[s].match
  BY <1>t DEF RecordOutcome, PassOk
<1>0. PICK o : o = Outcome(s)
  OBVIOUS
<1>1. o \in OutcomeRows /\ UserOf(m) = o.user /\ m[2] = o.vacancy
  <2>1. UserOf(m) \in Users /\ m[2] \in Vacancies
    BY ScoringAssumption DEF UserOf, Matches
  <2>2. pass[s].variant \in Given /\ pass[s].experiment \in Experiments \cup {Nothing}
    BY <1>t DEF RecordOutcome, PassOk, PassStates
  <2>. QED  BY <1>0, <2>1, <2>2 DEF Outcome, OutcomeRows
<1>2. OutcomeOf(o, m)
  BY <1>t, <1>0, <1>1 DEF RecordOutcome, PassOk, Outcome, OutcomeOf
<1>3. outcomes' \subseteq outcomes \cup {o} /\ stamps' = stamps
  BY <1>0 DEF RecordOutcome
<1>4. OutcomeOk(o)'
  BY <1>2, <1>3 DEF OutcomeOk, OutcomeOf
<1>5. \A p \in outcomes' : OutcomeOk(p)'
  BY <1>3, <1>4, OutcomeStays
<1>6. /\ pass' \in [Scorers -> PassStates]
      /\ \A q \in Scorers : PassOk(q)'
  BY <1>t, <1>3, PassGoesOn, PassStays DEF RecordOutcome, ScoresInv
<1>7. ScoresTypeOK'
  BY <1>t, <1>1, <1>3, <1>6 DEF ScoresTypeOK
<1>. QED  BY <1>5, <1>6, <1>7 DEF ScoresInv

\* Every step keeps scores, outcomes and passes in line.
LEMMA ScoresStep == TablesInv /\ ScoresInv /\ [ScoringNext]_scoringVars => ScoresInv'
<1>. SUFFICES ASSUME TablesInv, ScoresInv, [ScoringNext]_scoringVars PROVE ScoresInv'
  OBVIOUS
<1>t. ScoresTypeOK
  BY DEF ScoresInv
<1>1. CASE UNCHANGED <<stamps, outcomes, pass>>
  BY <1>t, <1>1, OutcomeStays, PassStays DEF ScoresInv, ScoresTypeOK
<1>2. ASSUME NEW s \in Scorers, StartPass(s) PROVE ScoresInv'
  <2>. DEFINE new == [NoPass EXCEPT !.pc = "next", !.todo = {m \in Matches : match[m] = "new"}]
  <2>1. pass' = [pass EXCEPT ![s] = new] /\ UNCHANGED <<stamps, outcomes>>
    BY <1>2 DEF StartPass
  <2>2. new \in PassStates /\ new.pc = "next" /\ new.variant = Nothing
    BY DEF PassStates, NoPass
  <2>. HIDE DEF new
  <2>3. /\ pass' \in [Scorers -> PassStates] /\ pass'[s] = new
        /\ \A q \in Scorers \ {s} : pass'[q] = pass[q]
    BY <1>t, <2>1, <2>2, PassReplaced
  <2>4. PassOk(s)'
    BY <2>2, <2>3 DEF PassOk
  <2>. QED  BY <2>1, <2>3, <2>4, PassMoves
<1>3. ASSUME NEW s \in Scorers, ScoringFails(s) PROVE ScoresInv'
  <2>1. UNCHANGED <<stamps, outcomes>> /\ NextMatch(s)
    BY <1>3 DEF ScoringFails
  <2>2. PassOk(s)'
    BY <1>t, <2>1, PassGoesOn, PassStays DEF ScoresInv
  <2>. QED  BY <1>t, <2>1, <2>2, PassGoesOn, PassMoves
<1>. QED  BY <1>1, <1>2, <1>3, GetActiveStep, AssignVariantStep, StoreScoreStep,
             RecordOutcomeStep, Movers DEF ScorerStep

\* No score, no outcome, no pass at start.
LEMMA ScoresInit == ScoringInit => ScoresInv
<1>. SUFFICES ASSUME ScoringInit PROVE ScoresInv
  OBVIOUS
<1>1. ScoresTypeOK
  BY DEF ScoringInit, ScoresTypeOK, PassStates, NoPass
<1>2. \A s \in Scorers : pass[s].pc = "idle" /\ pass[s].variant = Nothing
  BY DEF ScoringInit, NoPass
<1>. QED  BY <1>1, <1>2 DEF ScoringInit, ScoresInv, PassOk

LEMMA ScoresInvariance == ScoringSpec => []ScoresInv
<1>. QED  BY ScoresInit, ScoresStep, TablesInvariance, PTL DEF ScoringSpec

\* Whatever profiles, experiments and other passes do between the storing and the
\* recording, an outcome is of a score that was stored under its experiment and variant.
THEOREM OutcomesWereStored == ScoringSpec => []OutcomesAreScores
<1>1. ScoresInv => OutcomesAreScores
  BY DEF ScoresInv, OutcomeOk, OutcomeOf, OutcomesAreScores
<1>. QED  BY ScoresInvariance, <1>1, PTL

-----------------------------------------------------------------------------
\* Matches.

\* A match goes only with its profile, and a profile that is gone stays gone.
LEMMA MatchesStay ==
  ASSUME MatchesTypeOK, [ScoringNext]_scoringVars
  PROVE  /\ profile' \in [Profiles -> {"active", "inactive", "deleted"}]
         /\ match' \in [Matches -> {"none", "new", "scored"}]
         /\ \A p \in Profiles : profile[p] = "deleted" => profile'[p] = "deleted"
         /\ \A p \in Profiles, v \in Vacancies :
              match[<<p, v>>] # "none" => match'[<<p, v>>] # "none" \/ profile'[p] = "deleted"
<1>. USE DEF MatchesTypeOK
<1>1. CASE UNCHANGED <<profile, match>>
  BY <1>1 DEF Matches
<1>2. ASSUME NEW p \in Profiles, SetActive(p) PROVE profile' \in [Profiles -> {"active", "inactive", "deleted"}]
        /\ (\A q \in Profiles : profile[q] = "deleted" => profile'[q] = "deleted") /\ match' = match
  BY <1>2 DEF SetActive
<1>3. ASSUME NEW p \in Profiles, DeleteProfile(p)
      PROVE  /\ profile' \in [Profiles -> {"active", "inactive", "deleted"}]
             /\ match' \in [Matches -> {"none", "new", "scored"}]
             /\ \A q \in Profiles : profile[q] = "deleted" => profile'[q] = "deleted"
             /\ \A q \in Profiles, v \in Vacancies :
                  match[<<q, v>>] # "none" => match'[<<q, v>>] # "none" \/ profile'[q] = "deleted"
  BY <1>3 DEF DeleteProfile, Matches
<1>4. ASSUME NEW m \in Matches, CreateMatch(m)
      PROVE  /\ match' \in [Matches -> {"none", "new", "scored"}] /\ profile' = profile
             /\ \A n \in Matches : match[n] # "none" => match'[n] # "none"
  BY <1>4 DEF CreateMatch
<1>5. ASSUME NEW i \in Ingesters, BulkInsert(i)
      PROVE  /\ match' \in [Matches -> {"none", "new", "scored"}] /\ profile' = profile
             /\ \A n \in Matches : match[n] # "none" => match'[n] # "none"
  BY <1>5 DEF BulkInsert
<1>6. ASSUME NEW s \in Scorers, StoreScore(s)
      PROVE  /\ match' \in [Matches -> {"none", "new", "scored"}] /\ profile' = profile
             /\ \A n \in Matches : match[n] # "none" => match'[n] # "none"
  BY <1>6 DEF StoreScore
<1>7. \/ UNCHANGED <<profile, match>>
      \/ \E p \in Profiles : SetActive(p) \/ DeleteProfile(p)
      \/ \E m \in Matches : CreateMatch(m)
      \/ \E i \in Ingesters : BulkInsert(i)
      \/ \E s \in Scorers : StoreScore(s)
  BY DEF ScoringNext, scoringVars, IngestStep, Ingest, FindExisting, IngestFails, AdminStep, AddRow,
         Deactivate, Activate, ActivationFails, ScorerStep, StartPass, GetActive, AssignVariant,
         ScoringFails, RecordOutcome
<1>8. \A p \in Profiles, v \in Vacancies : <<p, v>> \in Matches
  BY DEF Matches
<1>. QED  BY <1>1, <1>2, <1>3, <1>4, <1>5, <1>6, <1>7, <1>8

\* What an ingestion has done when the lookup for a profile is back.
LEMMA AfterFind ==
  ASSUME NEW i \in Ingesters, IngestOk(i), ingest[i].pc = "find", NEW p \in ingest[i].todo,
         NEW q \in ingest[i].listed \ (ingest[i].todo \ {p}), NEW v \in ingest[i].batch
  PROVE  \/ profile[q] = "deleted" \/ match[<<q, v>>] # "none"
         \/ <<q, v>> \in Missing(p, ingest[i].batch)
BY DEF IngestOk, Missing

\* And when the matches that it missed are inserted.
LEMMA AfterInsert ==
  ASSUME MatchesTypeOK, NEW i \in Ingesters, IngestOk(i), BulkInsert(i),
         NEW q \in ingest[i].listed \ ingest[i].todo, NEW v \in ingest[i].batch
  PROVE  profile[q] = "deleted" \/ match'[<<q, v>>] # "none"
<1>1. <<q, v>> \in Matches
  BY DEF MatchesTypeOK, IngestStates, Matches
<1>. QED  BY <1>1 DEF IngestOk, BulkInsert

\* The next profile is looked up, or the ingestion returns.
LEMMA NextProfileStep ==
  ASSUME MatchesTypeOK, NEW i \in Ingesters, NEW left \in SUBSET Profiles, NextProfile(i, left)
  PROVE  /\ ingest' \in [Ingesters -> IngestStates]
         /\ \A j \in Ingesters \ {i} : ingest'[j] = ingest[j]
         /\ left = {} => ingest'[i] = NoIngest
         /\ left # {} => /\ ingest'[i].pc = "find" /\ ingest'[i].listed = ingest[i].listed
                         /\ ingest'[i].batch = ingest[i].batch /\ ingest'[i].todo = left
                         /\ ingest'[i].missing = {}
<1>. DEFINE new == IF left = {} THEN NoIngest
                   ELSE [ingest[i] EXCEPT !.pc = "find", !.todo = left, !.missing = {}]
<1>1. ingest' = [ingest EXCEPT ![i] = new]
  BY DEF NextProfile, MatchesTypeOK
<1>2. ingest[i] \in IngestStates
  BY DEF MatchesTypeOK
<1>3. /\ new \in IngestStates /\ (left = {} => new = NoIngest)
      /\ left # {} => /\ new.pc = "find" /\ new.listed = ingest[i].listed
                      /\ new.batch = ingest[i].batch /\ new.todo = left /\ new.missing = {}
  BY <1>2 DEF IngestStates, NoIngest
<1>. HIDE DEF new
<1>4. ingest'[i] = new
  BY <1>1 DEF MatchesTypeOK
<1>. QED  BY <1>1, <1>3, <1>4 DEF MatchesTypeOK

\* An ingestion that is left alone, while matches and profiles change.
LEMMA IngestStays ==
  ASSUME MatchesInv, [ScoringNext]_scoringVars, NEW i \in Ingesters, ingest'[i] = ingest[i]
  PROVE  IngestOk(i)'
<1>1. ingest[i].listed \subseteq Profiles /\ ingest[i].batch \subseteq Vacancies /\ IngestOk(i)
  BY DEF MatchesInv, MatchesTypeOK, IngestStates
<1>. QED  BY <1>1, MatchesStay DEF MatchesInv, IngestOk

\* The lookup of the next profile's matches.
LEMMA FindStep ==
  ASSUME MatchesInv, NEW i \in Ingesters, FindExisting(i)
  PROVE  /\ ingest' \in [Ingesters -> IngestStates] /\ IngestOk(i)'
         /\ \A j \in Ingesters \ {i} : ingest'[j] = ingest[j]
<1>t. MatchesTypeOK /\ IngestOk(i) /\ ingest[i] \in IngestStates /\ UNCHANGED <<profile, match>>
  BY DEF MatchesInv, MatchesTypeOK, FindExisting
<1>1. PICK p \in ingest[i].todo :
        IF Missing(p, ingest[i].batch) = {}
        THEN NextProfile(i, ingest[i].todo \ {p})
        ELSE ingest' = [ingest EXCEPT ![i].pc = "insert", ![i].todo = @ \ {p},
                                      ![i].missing = Missing(p, ingest[i].batch)]
  BY DEF FindExisting
<1>2. PICK missing, left : missing = Missing(p, ingest[i].batch) /\ left = ingest[i].todo \ {p}
  OBVIOUS
<1>3. missing \in SUBSET Matches /\ left \in SUBSET Profiles
  <2>1. p \in Profiles /\ ingest[i].batch \subseteq Vacancies /\ ingest[i].todo \subseteq Profiles
    BY <1>t DEF IngestStates
  <2>2. Missing(p, ingest[i].batch) \subseteq Matches
    <3>. SUFFICES ASSUME NEW m \in Missing(p, ingest[i].batch) PROVE m \in Matches
      OBVIOUS
    <3>1. PICK v \in ingest[i].batch : m = <<p, v>>
      BY DEF Missing
    <3>. QED  BY <2>1, <3>1 DEF Matches
  <2>. QED  BY <1>2, <2>1, <2>2
<1>4. \A q \in ingest[i].listed \ left, v \in ingest[i].batch :
        profile'[q] = "deleted" \/ match'[<<q, v>>] # "none" \/ <<q, v>> \in missing
  BY <1>t, <1>2, AfterFind DEF FindExisting
<1>5. CASE missing = {}
  <2>1. NextProfile(i, left)
    BY <1>1, <1>2, <1>5
  <2>2. /\ ingest' \in [Ingesters -> IngestStates]
        /\ \A j \in Ingesters \ {i} : ingest'[j] = ingest[j]
    BY <1>t, <1>3, <2>1, NextProfileStep
  <2>3. CASE left = {}
    BY <1>t, <1>3, <2>1, <2>2, <2>3, NextProfileStep DEF IngestOk, NoIngest
  <2>4. CASE left # {}
    <3>1. /\ ingest'[i].pc = "find" /\ ingest'[i].listed = ingest[i].listed
          /\ ingest'[i].batch = ingest[i].batch /\ ingest'[i].todo = left
          /\ ingest'[i].missing = {}
      BY <1>t, <1>3, <2>1, <2>4, NextProfileStep
    <3>. QED  BY <1>4, <1>5, <2>2, <3>1 DEF IngestOk
  <2>. QED  BY <2>3, <2>4
<1>6. CASE missing # {}
  <2>. DEFINE new == [ingest[i] EXCEPT !.pc = "insert", !.todo = left, !.missing = missing]
  <2>1. ingest' = [ingest EXCEPT ![i] = new]
    BY <1>t, <1>1, <1>2, <1>6 DEF MatchesTypeOK
  <2>2. /\ new \in IngestStates /\ new.pc = "insert" /\ new.listed = ingest[i].listed
        /\ new.batch = ingest[i].batch /\ new.todo = left /\ new.missing = missing
    BY <1>t, <1>3 DEF IngestStates
  <2>. HIDE DEF new
  <2>3. /\ ingest' \in [Ingesters -> IngestStates] /\ ingest'[i] = new
        /\ \A j \in Ingesters \ {i} : ingest'[j] = ingest[j]
    BY <1>t, <2>1, <2>2 DEF MatchesTypeOK
  <2>4. IngestOk(i)'
    BY <1>4, <2>2, <2>3 DEF IngestOk
  <2>. QED  BY <2>3, <2>4
<1>. QED  BY <1>5, <1>6

\* The insertion of the matches that are missing.
LEMMA InsertStep ==
  ASSUME MatchesInv, NEW i \in Ingesters, BulkInsert(i)
  PROVE  /\ ingest' \in [Ingesters -> IngestStates] /\ IngestOk(i)'
         /\ \A j \in Ingesters \ {i} : ingest'[j] = ingest[j]
<1>t. MatchesTypeOK /\ IngestOk(i) /\ ingest[i] \in IngestStates /\ profile' = profile
  BY DEF MatchesInv, MatchesTypeOK, BulkInsert
<1>1. PICK left \in SUBSET Profiles : left = ingest[i].todo
  BY <1>t DEF IngestStates
<1>2. NextProfile(i, left)
  BY <1>1 DEF BulkInsert
<1>3. \A q \in ingest[i].listed \ left, v \in ingest[i].batch :
        profile'[q] = "deleted" \/ match'[<<q, v>>] # "none"
  BY <1>t, <1>1, AfterInsert
<1>4. /\ ingest' \in [Ingesters -> IngestStates]
      /\ \A j \in Ingesters \ {i} : ingest'[j] = ingest[j]
  BY <1>t, <1>2, NextProfileStep
<1>5. CASE left = {}
  BY <1>t, <1>2, <1>4, <1>5, NextProfileStep DEF IngestOk, NoIngest
<1>6. CASE left # {}
  <2>1. /\ ingest'[i].pc = "find" /\ ingest'[i].listed = ingest[i].listed
        /\ ingest'[i].batch = ingest[i].batch /\ ingest'[i].todo = left
        /\ ingest'[i].missing = {}
    BY <1>t, <1>2, <1>6, NextProfileStep
  <2>. QED  BY <1>3, <1>4, <2>1 DEF IngestOk
<1>. QED  BY <1>5, <1>6

\* Every step keeps matches and ingestions in line.
LEMMA MatchesStep == MatchesInv /\ [ScoringNext]_scoringVars => MatchesInv'
<1>. SUFFICES ASSUME MatchesInv, [ScoringNext]_scoringVars PROVE MatchesInv'
  OBVIOUS
<1>t. MatchesTypeOK
  BY DEF MatchesInv
<1>. SUFFICES /\ ingest' \in [Ingesters -> IngestStates]
              /\ \A i \in Ingesters : IngestOk(i)'
  BY <1>t, MatchesStay DEF MatchesInv, MatchesTypeOK
<1>1. CASE UNCHANGED ingest
  BY <1>t, <1>1, IngestStays DEF MatchesTypeOK
<1>2. ASSUME NEW i \in Ingesters, IngestStep(i)
      PROVE  /\ ingest' \in [Ingesters -> IngestStates] /\ IngestOk(i)'
             /\ \A j \in Ingesters \ {i} : ingest'[j] = ingest[j]
  <2>1. CASE Ingest(i)
    <3>1. PICK batch \in SUBSET Vacancies \ {{}}, listed \in SUBSET Profiles :
            ingest' = [ingest EXCEPT ![i] = [pc |-> "find", listed |-> listed, todo |-> listed,
                                             batch |-> batch, missing |-> {}]]
      BY <2>1 DEF Ingest
    <3>. DEFINE new == [pc |-> "find", listed |-> listed, todo |-> listed,
                        batch |-> batch, missing |-> {}]
    <3>2. /\ new \in IngestStates /\ new.pc = "find" /\ new.listed = listed
          /\ new.todo = listed /\ new.missing = {}
      BY DEF IngestStates
    <3>. HIDE DEF new
    <3>3. /\ ingest' \in [Ingesters -> IngestStates] /\ ingest'[i] = new
          /\ \A j \in Ingesters \ {i} : ingest'[j] = ingest[j]
      BY <1>t, <3>1, <3>2 DEF MatchesTypeOK, new
    <3>. QED  BY <3>2, <3>3 DEF IngestOk
  <2>2. CASE IngestFails(i)
    <3>. DEFINE new == [NoIngest EXCEPT !.pc = "raised"]
    <3>1. ingest' = [ingest EXCEPT ![i] = new]
      BY <2>2 DEF IngestFails
    <3>2. new \in IngestStates /\ new.pc = "raised" /\ new.listed = {}
      BY DEF IngestStates, NoIngest
    <3>. HIDE DEF new
    <3>3. /\ ingest' \in [Ingesters -> IngestStates] /\ ingest'[i] = new
          /\ \A j \in Ingesters \ {i} : ingest'[j] = ingest[j]
      BY <1>t, <3>1, <3>2 DEF MatchesTypeOK
    <3>. QED  BY <3>2, <3>3 DEF IngestOk
  <2>. QED  BY <1>2, <2>1, <2>2, FindStep, InsertStep DEF IngestStep
<1>3. ASSUME NEW i \in Ingesters, IngestStep(i), NEW j \in Ingesters \ {i} PROVE IngestOk(j)'
  BY <1>2, <1>3, IngestStays
<1>. QED  BY <1>1, <1>2, <1>3, Movers

\* Nobody ingests at start.
LEMMA MatchesInit == ScoringInit => MatchesInv
<1>. SUFFICES ASSUME ScoringInit PROVE MatchesInv
  OBVIOUS
<1>1. MatchesTypeOK
  BY DEF ScoringInit, MatchesTypeOK, IngestStates, NoIngest
<1>2. \A i \in Ingesters : ingest[i].listed = {} /\ ingest[i].missing = {}
  BY DEF ScoringInit, NoIngest
<1>. QED  BY <1>1, <1>2 DEF MatchesInv, IngestOk

LEMMA MatchesInvariance == ScoringSpec => []MatchesInv
<1>. QED  BY MatchesInit, MatchesStep, PTL DEF ScoringSpec

\* An ingestion that returns has left a match for every vacancy and every profile it
\* listed that still is (bulk_create_for_all_active_profiles).
THEOREM ListedGetMatches == ScoringSpec => ListedAreMatched
<1>1. ASSUME MatchesInv, [ScoringNext]_scoringVars, NEW i \in Ingesters, ingest'[i] = NoIngest,
             NEW p \in ingest[i].listed, NEW v \in ingest[i].batch
      PROVE  profile'[p] = "deleted" \/ match'[<<p, v>>] # "none"
  <2>t. /\ MatchesTypeOK /\ IngestOk(i) /\ ingest[i] \in IngestStates
        /\ ingest[i].pc \in {"find", "insert"}
    BY <1>1 DEF MatchesInv, MatchesTypeOK, IngestOk, IngestStates
  <2>1. ingest'[i] # ingest[i] /\ ingest'[i].pc = "idle"
    BY <1>1, <2>t DEF NoIngest
  <2>2. IngestStep(i)
    <3>1. PICK j \in Ingesters : IngestStep(j)
      BY <1>1, <2>1, Movers
    <3>2. j = i
      BY <2>t, <2>1, <3>1 DEF IngestStep, Ingest, FindExisting, BulkInsert, IngestFails, NextProfile,
                              MatchesTypeOK
    <3>. QED  BY <3>1, <3>2
  <2>3. FindExisting(i) \/ BulkInsert(i)
    <3>1. ~Ingest(i)
      BY <2>t DEF Ingest
    <3>2. ~IngestFails(i)
      BY <2>t, <2>1 DEF IngestFails, MatchesTypeOK, NoIngest
    <3>. QED  BY <2>2, <3>1, <3>2 DEF IngestStep
  <2>4. CASE FindExisting(i)
    <3>1. PICK q \in ingest[i].todo :
            IF Missing(q, ingest[i].batch) = {}
            THEN NextProfile(i, ingest[i].todo \ {q})
            ELSE ingest' = [ingest EXCEPT ![i].pc = "insert", ![i].todo = @ \ {q},
                                          ![i].missing = Missing(q, ingest[i].batch)]
      BY <2>4 DEF FindExisting
    <3>2. Missing(q, ingest[i].batch) = {}
      BY <2>t, <2>1, <3>1 DEF MatchesTypeOK, IngestStates
    <3>3. ingest[i].todo \ {q} \in SUBSET Profiles
      BY <2>t DEF IngestStates
    <3>4. ingest[i].todo \ {q} = {}
      <4>. PICK left \in SUBSET Profiles : left = ingest[i].todo \ {q}
        BY <3>3
      <4>1. NextProfile(i, left)
        BY <3>1, <3>2
      <4>. QED  BY <2>t, <2>1, <4>1, NextProfileStep
    <3>5. p \in ingest[i].listed \ (ingest[i].todo \ {q})
      BY <3>4
    <3>6. profile[p] = "deleted" \/ match[<<p, v>>] # "none"
      BY <2>t, <2>4, <3>2, <3>5, AfterFind DEF FindExisting
    <3>. QED  BY <2>4, <3>6 DEF FindExisting
  <2>5. CASE BulkInsert(i)
    <3>1. ingest[i].todo \in SUBSET Profiles /\ NextProfile(i, ingest[i].todo)
      BY <2>t, <2>5 DEF BulkInsert, IngestStates
    <3>2. ingest[i].todo = {}
      <4>. PICK left \in SUBSET Profiles : left = ingest[i].todo
        BY <3>1
      <4>1. NextProfile(i, left)
        BY <3>1
      <4>. QED  BY <2>t, <2>1, <4>1, NextProfileStep
    <3>3. profile[p] = "deleted" \/ match'[<<p, v>>] # "none"
      BY <2>t, <2>5, <3>2, AfterInsert
    <3>. QED  BY <2>5, <3>3 DEF BulkInsert
  <2>. QED  BY <2>3, <2>4, <2>5
<1>2. MatchesInv /\ [ScoringNext]_scoringVars =>
        [\A i \in Ingesters : \A p \in ingest[i].listed, v \in ingest[i].batch :
           \/ ingest'[i] # NoIngest
           \/ profile'[p] = "deleted"
           \/ match'[<<p, v>>] # "none"]_scoringVars
  BY <1>1
<1>. QED  BY MatchesInvariance, <1>2, PTL DEF ScoringSpec, ListedAreMatched

\* Whatever profiles, admins, ingestions and scorers do, the variables stay in range.
THEOREM ScoringTypeCorrect == ScoringSpec => []ScoringTypeOK
<1>1. TablesInv /\ MatchesInv /\ ScoresInv => ScoringTypeOK
  BY DEF TablesInv, MatchesInv, ScoresInv, ScoringTypeOK
<1>. QED  BY TablesInvariance, MatchesInvariance, ScoresInvariance, <1>1, PTL

-----------------------------------------------------------------------------
\* The choice of a variant.

\* A set of numbers that is not empty has a least one.
LEMMA LeastNumber ==
  ASSUME NEW T \in SUBSET Nat, T # {}
  PROVE  \E n \in T : \A m \in T : n <= m
<1>. DEFINE R == OpToRel(<, Nat)
<1>1. IsWellFoundedOn(R, Nat)
  BY NatLessThanWellFounded
<1>2. \A m, n \in Nat : m < n => <<m, n>> \in R
  BY DEF OpToRel
<1>. HIDE DEF R
<1>3. PICK n \in T : \A m \in T : ~ (<<m, n>> \in R)
  BY <1>1, WFMin
<1>4. ASSUME NEW m \in T PROVE n <= m
  <2>1. m \in Nat /\ n \in Nat
    OBVIOUS
  <2>2. ~ (m < n)
    BY <1>2, <1>3, <2>1
  <2>. QED  BY <2>1, <2>2
<1>. QED  BY <1>4

\* _pick_variant: the weights up to the k-th variant exceed the bucket, or it is the
\* last, and the weights up to none before it do.
Picks(vs, bucket, k) ==
  /\ bucket < UpTo(vs, k) \/ k = Len(vs)
  /\ \A j \in 1..(k - 1) : ~ (bucket < UpTo(vs, j))

\* There is such a variant, and it is the one that is picked.
LEMMA PickedVariant ==
  ASSUME NEW vs \in Seq([name : STRING, weight : Int]), vs # <<>>, NEW bucket
  PROVE  \E k \in 1..Len(vs) : Picks(vs, bucket, k) /\ PickVariant(vs, bucket) = vs[k].name
<1>1. Len(vs) \in Nat /\ Len(vs) > 0
  OBVIOUS
<1>. DEFINE Reached == {k \in 1..Len(vs) : bucket < UpTo(vs, k) \/ k = Len(vs)}
<1>2. Len(vs) \in Reached /\ Reached \in SUBSET Nat
  BY <1>1
<1>3. PICK k \in Reached : \A j \in Reached : k <= j
  <2>. HIDE DEF Reached
  <2>. QED  BY <1>2, LeastNumber
<1>4. \A j \in 1..(k - 1) : j \in 1..Len(vs) /\ ~ (k <= j)
  BY <1>1, <1>3
<1>5. k \in 1..Len(vs) /\ Picks(vs, bucket, k)
  BY <1>3, <1>4 DEF Picks
<1>6. PickVariant(vs, bucket) = vs[CHOOSE i \in 1..Len(vs) : Picks(vs, bucket, i)].name
  BY DEF PickVariant, Picks
<1>. QED  BY <1>5, <1>6

\* Every outcome is of the variant that the weights of some experiment give its user:
\* the active one of the two reads, which need not be the one it is recorded for.
VariantsFitBuckets ==
  \A o \in outcomes : \E x \in Experiments : WellFormed(x) /\
    \E k \in 1..Len(Variants[x]) : /\ o.variant = Variants[x][k].name
                                  /\ Picks(Variants[x], Bucket[o.user], k)

\* However experiments come and go, an outcome's variant is one that weights that were
\* validated give the user of the row (_pick_variant).
THEOREM VariantsByWeight == ScoringSpec => []VariantsFitBuckets
<1>1. ScoresInv => VariantsFitBuckets
  <2>. SUFFICES ASSUME ScoresInv, NEW o \in outcomes
                PROVE  \E x \in Experiments : WellFormed(x) /\
                         \E k \in 1..Len(Variants[x]) : /\ o.variant = Variants[x][k].name
                                                       /\ Picks(Variants[x], Bucket[o.user], k)
    BY DEF VariantsFitBuckets
  <2>1. PICK m \in Matches, x \in Experiments :
          UserOf(m) = o.user /\ WellFormed(x) /\ o.variant = VariantFor(x, m)
    BY DEF ScoresInv, OutcomeOk, OutcomeOf
  <2>2. o.variant = PickVariant(Variants[x], Bucket[o.user])
    BY <2>1 DEF VariantFor
  <2>3. Variants[x] \in Seq([name : STRING, weight : Int]) /\ Variants[x] # <<>>
    BY <2>1, ScoringAssumption DEF WellFormed
  <2>. QED  BY <2>1, <2>2, <2>3, PickedVariant
<1>. QED  BY ScoresInvariance, <1>1, PTL
=============================================================================
