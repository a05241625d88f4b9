------------------------------ MODULE Letters ------------------------------
(***************************************************************************)
(* What an LLM writes for a user: the cover letter of a match               *)
(* (cover_letter/), the answers to screening questions (screening/), and    *)
(* the memory of the letters that the user accepted (writing_style_memory/).*)
(*                                                                          *)
(* Letters and answers are written alike: look the inputs up, await the     *)
(* LLM, look for a row of the target, then UPDATE it or INSERT one under a  *)
(* unique key.  Other calls run at the await and between the transactions.  *)
(* A text is a number: the LLM never gives the same one twice.              *)
(***************************************************************************)
EXTENDS Naturals, Sequences

CONSTANTS
  Calls,        \* API calls and chat commands in progress
  Letters,      \* matches, each with its letter
  Answers,      \* pairs of a question and a user
  Form,         \* the answers of one vacancy, in question_order
  NoRow,
  MaxTexts      \* bound on the texts that the LLM gives

Row == [id : Nat, text : Nat, version : Nat]

ASSUME LettersAssumption ==
  /\ Letters \cap Answers = {}
  /\ Form \in Seq(Answers)
  /\ NoRow \notin Row
  /\ MaxTexts \in Nat

Targets == Letters \cup Answers

VARIABLES
  row,        \* cover_letter_drafts and screening_question_answers
  written,    \* texts the LLM gave so far
  pc, todo, copy, text,   \* per call: next step, targets left, row it holds, new text
  asked,      \* and the targets it was called for
  shown,      \* what the reply to the last /regenerate of a letter showed
  accepted,   \* matches that were accepted
  memory      \* style_memory_entries, as pairs of a letter's id and a text

call == <<pc, todo, copy, text, asked>>
vars == <<row, written, call, shown, accepted, memory>>

Init ==
  /\ row = [t \in Targets |-> NoRow]
  /\ written = 0
  /\ pc = [c \in Calls |-> "idle"]
  /\ todo = [c \in Calls |-> <<>>]
  /\ copy = [c \in Calls |-> NoRow]
  /\ text = [c \in Calls |-> 0]
  /\ asked = [c \in Calls |-> <<>>]
  /\ shown = [m \in Letters |-> NoRow]
  /\ accepted = {} /\ memory = {}

\* The call goes on with the targets in rest, or returns.
GoOn(c, rest, next) ==
  /\ pc' = [pc EXCEPT ![c] = IF rest = <<>> THEN "idle" ELSE next]
  /\ todo' = [todo EXCEPT ![c] = rest]
  /\ copy' = [copy EXCEPT ![c] = NoRow]
  /\ text' = [text EXCEPT ![c] = 0]
  /\ asked' = [asked EXCEPT ![c] = IF rest = <<>> THEN <<>> ELSE IF pc[c] = "idle" THEN rest ELSE @]

-----------------------------------------------------------------------------
\* Generating.

\* The match, its vacancy, profile, user, resume and style are all found.
GenerateForMatch(c, m) ==
  /\ pc[c] = "idle"
  /\ GoOn(c, <<m>>, "llm")
  /\ UNCHANGED <<row, written, shown, accepted, memory>>

GenerateAnswer(c, a) ==
  /\ pc[c] = "idle"
  /\ GoOn(c, <<a>>, "llm")
  /\ UNCHANGED <<row, written, shown, accepted, memory>>

\* generate_answers_for_vacancy: one generate_answer after the other.
GenerateAnswersForVacancy(c) ==
  /\ pc[c] = "idle"
  /\ GoOn(c, Form, "llm")
  /\ UNCHANGED <<row, written, shown, accepted, memory>>

\* The draft is read, and with it the row that the reply will be made from.
RegenerateForMatch(c, m) ==
  /\ pc[c] = "idle" /\ row[m] # NoRow
  /\ pc' = [pc EXCEPT ![c] = "llmAgain"]
  /\ todo' = [todo EXCEPT ![c] = <<m>>]
  /\ copy' = [copy EXCEPT ![c] = row[m]]
  /\ UNCHANGED <<row, written, text, asked, shown, accepted, memory>>

Complete(c) ==
  /\ pc[c] \in {"llm", "llmAgain"} /\ written < MaxTexts
  /\ written' = written + 1
  /\ text' = [text EXCEPT ![c] = written']
  /\ pc' = [pc EXCEPT ![c] = IF @ = "llm" THEN "find" ELSE "reply"]
  /\ UNCHANGED <<row, todo, copy, asked, shown, accepted, memory>>

\* get_by_match, list_by_user_question
Find(c) ==
  /\ pc[c] = "find"
  /\ copy' = [copy EXCEPT ![c] = row[Head(todo[c])]]
  /\ pc' = [pc EXCEPT ![c] = "write"]
  /\ UNCHANGED <<row, written, todo, text, asked, shown, accepted, memory>>

\* update_content and update leave the version and the status alone.
UpdateRow(c) ==
  /\ pc[c] = "write" /\ copy[c] # NoRow
  /\ row' = [row EXCEPT ![Head(todo[c])].text = text[c]]
  /\ GoOn(c, Tail(todo[c]), "llm")
  /\ UNCHANGED <<written, shown, accepted, memory>>

\* Mutant: the table takes a second row, and readers find the newer one.
NoRowYetIgnored(t) == TRUE

\* UNIQUE(match_id), UNIQUE(question_id, user_id)
NoRowYet(t) == row[t] = NoRow

InsertRow(c) ==
  /\ pc[c] = "write" /\ copy[c] = NoRow /\ NoRowYet(Head(todo[c]))
  /\ row' = [row EXCEPT ![Head(todo[c])] = [id |-> text[c], text |-> text[c], version |-> 1]]
  /\ GoOn(c, Tail(todo[c]), "llm")
  /\ UNCHANGED <<written, shown, accepted, memory>>

\* Mutant: the call passes over the target that failed.
LeftAfterFailureTail(c) == Tail(todo[c])

\* generate_answers_for_vacancy does not catch what generate_answer raises.
LeftAfterFailure(c) == <<>>

\* The LLM or a statement raises, an INSERT that lost a race among them: the
\* call ends with an error, and the targets before this one keep their rows.
GenerationFails(c) ==
  /\ pc[c] \in {"llm", "llmAgain", "find", "write"}
  /\ GoOn(c, LeftAfterFailure(c), "llm")
  /\ UNCHANGED <<row, written, shown, accepted, memory>>

\* regenerate_for_match counts up the version of the row it holds, which belongs
\* to a session that is closed: nothing is stored.  The version is audited, and
\* shown with the text.
Reply(c) ==
  /\ pc[c] = "reply"
  /\ shown' = [shown EXCEPT ![Head(todo[c])] =
                 [copy[c] EXCEPT !.text = text[c], !.version = @ + 1]]
  /\ GoOn(c, <<>>, "llm")
  /\ UNCHANGED <<row, written, accepted, memory>>

-----------------------------------------------------------------------------
\* Accepting a letter.

\* The match has a status that can be accepted.
Accept(c, m) ==
  /\ pc[c] = "idle" /\ m \notin accepted
  /\ pc' = [pc EXCEPT ![c] = "accept"]
  /\ todo' = [todo EXCEPT ![c] = <<m>>]
  /\ UNCHANGED <<row, written, copy, text, asked, shown, accepted, memory>>

WriteAccepted(c) ==
  /\ pc[c] = "accept"
  /\ accepted' = accepted \cup {Head(todo[c])}
  /\ pc' = [pc EXCEPT ![c] = "lookup"]
  /\ UNCHANGED <<row, written, todo, copy, text, asked, shown, memory>>

\* _record_style_memory: without a draft there is nothing to remember.
LookupDraft(c) ==
  /\ pc[c] = "lookup"
  /\ LET m == Head(todo[c])
     IN  IF row[m] = NoRow THEN GoOn(c, <<>>, "llm")
         ELSE /\ copy' = [copy EXCEPT ![c] = row[m]]
              /\ pc' = [pc EXCEPT ![c] = "remember"]
              /\ UNCHANGED <<todo, text, asked>>
  /\ UNCHANGED <<row, written, shown, accepted, memory>>

\* A failure is logged and swallowed.
RecordAcceptedLetter(c) ==
  /\ pc[c] = "remember"
  /\ memory' \in {memory, memory \cup {<<copy[c].id, copy[c].text>>}}
  /\ GoOn(c, <<>>, "llm")
  /\ UNCHANGED <<row, written, shown, accepted>>

-----------------------------------------------------------------------------

Next ==
  \/ \E c \in Calls :
       \/ GenerateAnswersForVacancy(c) \/ Complete(c) \/ Find(c) \/ UpdateRow(c) \/ InsertRow(c)
       \/ GenerationFails(c) \/ Reply(c) \/ WriteAccepted(c) \/ LookupDraft(c) \/ RecordAcceptedLetter(c)
       \/ \E m \in Letters : GenerateForMatch(c, m) \/ RegenerateForMatch(c, m) \/ Accept(c, m)
       \/ \E a \in Answers : GenerateAnswer(c, a)

Spec == Init /\ [][Next]_vars

-----------------------------------------------------------------------------
\* Properties.

PC == {"idle", "llm", "llmAgain", "find", "write", "reply", "accept", "lookup", "remember"}

TypeOK ==
  /\ row \in [Targets -> Row \cup {NoRow}]
  /\ written \in Nat
  /\ pc \in [Calls -> PC]
  /\ todo \in [Calls -> Seq(Targets)]
  /\ copy \in [Calls -> Row \cup {NoRow}]
  /\ text \in [Calls -> Nat]
  /\ asked \in [Calls -> Seq(Targets)]
  /\ shown \in [Letters -> Row \cup {NoRow}]
  /\ accepted \subseteq Letters
  /\ memory \subseteq Nat \X Nat

\* A letter or an answer keeps its row, which style memory and clients refer to,
\* whoever writes it at the same time and again.
RowsKeepTheirId ==
  [][\A t \in Targets : row[t] # NoRow => row'[t] # NoRow /\ row'[t].id = row[t].id]_vars

\* Answering a vacancy's questions breaks off at the first failure: every question
\* before the one that a call is at has its answer stored, and keeps it.
FormHasNoGap ==
  \A c \in Calls : \A i \in 1 .. Len(asked[c]) - Len(todo[c]) : row[asked[c][i]] # NoRow
=============================================================================
