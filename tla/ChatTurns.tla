----------------------------- MODULE ChatTurns -----------------------------
(***************************************************************************)
(* The turns of one chat thread: the chat routes (app/api/v1/chat.py), the *)
(* run of a turn (run_chat_turn of app/agents/entrypoints.py), the graph   *)
(* it drives (supervisor, specialist with its tools, synthesis) and the    *)
(* onboarding tools (app/agents/acquisition.py).                           *)
(*                                                                         *)
(* One turn writes to four places with commits of their own: its database  *)
(* session (tools), the checkpoint of the thread (after every node), the   *)
(* audit trail and trace (at once), the messages (before and after).  Two  *)
(* turns of a thread may overlap: nothing serializes them.                 *)
(***************************************************************************)
EXTENDS Naturals, FiniteSets

CONSTANTS
    Turns,          \* requests, one message each
    MaxTools,       \* bound: tool calls of all turns (max_iters of one in the code)
    MaxFaults,      \* bound: failed writes and requests that are cancelled
    Self, None,     \* the signed-in customer; nobody
    Bags            \* what earlier turns may have left: [fields, kyc]

VARIABLES
    caller,         \* Self, or None for an anonymous prospect
    saved,          \* the scratch and customer_id of the last checkpoint
    turn,           \* what each turn is doing, with the writes of its session
    thread,         \* the Conversation row and its messages
    customers,      \* turns whose new customer is committed
    accounts,       \* turn -> accounts it has committed
    leads,          \* committed leads, named after their turn -> stage
    handoffs,       \* turns whose handoff is committed and not resolved
    status,         \* turn -> status of its agent_runs row
    calls, faults,
    \* history
    audited,        \* the audit trail shows a verification that succeeded
    committed,      \* turns whose session was committed
    peak            \* most turns in flight at once

rows    == <<customers, accounts, leads, handoffs>>
history == <<audited, committed, peak>>
vars    == <<caller, saved, turn, thread, rows, status, calls, faults, history>>

Fields  == {"name", "pan"}          \* what verify_kyc needs
Ids     == Turns \cup {Self, None}
Stages  == {"new", "qualified", "converted"}
NoLeads == [t \in {} |-> "new"]

Scratch == [fields : SUBSET Fields, kyc : {"open", "verified", "refused"},
            lead : Turns \cup {None}, customer : Ids]
Fresh   == [fields |-> {}, kyc |-> "open", lead |-> None, customer |-> None]

NoTurn == [at |-> "idle", cid |-> None, state |-> Fresh, made |-> FALSE, opened |-> 0,
           leads |-> NoLeads, handoff |-> FALSE, broken |-> FALSE, left |-> FALSE]

NoThread == [owner |-> None, title |-> "none", asked |-> {}, answered |-> {}]

\* A verified bag left its audit row as well.
Init ==
    /\ caller \in {Self, None}
    /\ \E bag \in Bags : saved = [fields |-> bag.fields, kyc |-> bag.kyc, lead |-> None, customer |-> None]
    /\ turn = [t \in Turns |-> NoTurn]
    /\ thread = NoThread
    /\ customers = {} /\ accounts = [t \in Turns |-> 0] /\ leads = NoLeads /\ handoffs = {}
    /\ status = [t \in Turns |-> "none"]
    /\ calls = 0 /\ faults = 0
    /\ audited = (saved.kyc = "verified") /\ committed = {} /\ peak = 0

At(t, step)   == turn[t].at = step
Goto(t, step) == turn' = [turn EXCEPT ![t].at = step]
\* What is left of a turn whose session is closed.
Close(t, step) == turn' = [turn EXCEPT ![t] = [NoTurn EXCEPT !.at = step]]
Over(t) == Close(t, "over")

Fails == faults < MaxFaults /\ faults' = faults + 1
Works == faults' = faults
InFlight == {t \in Turns : turn[t].at \notin {"idle", "over"}}

(***************************************************************************)
(* post_chat_message and the messages                                      *)
(***************************************************************************)

\* _authorize_conversation: a prospect is no customer.
MayUse == thread.owner = None \/ (caller = Self /\ thread.owner = Self)

\* _resolve_customer_id, committed before the stream starts.  Turns are numbered in the
\* order they are asked.
Ask(t) ==
    /\ At(t, "idle") /\ MayUse
    /\ \A s \in Turns : s < t => ~At(s, "idle")
    /\ turn' = [turn EXCEPT ![t] = [NoTurn EXCEPT !.at = "begin", !.cid = caller]]
    /\ thread' = [thread EXCEPT !.owner = caller]
    /\ peak' = IF Cardinality(InFlight) + 1 > peak THEN Cardinality(InFlight) + 1 ELSE peak
    /\ UNCHANGED <<caller, calls, saved, rows, status, faults, audited, committed>>

Exists(c) == c = Self \/ c \in customers

\* _persist_message: a thread without a row gets one; a customer that was never
\* committed is a foreign key error, which like any other is only logged.
WithMessage(owner, kind, t) ==
    LET row == IF thread.owner = None THEN [thread EXCEPT !.owner = owner] ELSE thread IN
    IF kind = "user" THEN [row EXCEPT !.asked = @ \cup {t}]
    ELSE [row EXCEPT !.answered = @ \cup {t}]

\* The question, for a customer, and the run's row; then the graph takes up the last
\* checkpoint: turn_input leaves the scratch alone, and customer_id unless it is known.
Begin(t) ==
    /\ At(t, "begin")
    /\ IF turn[t].cid = None THEN Works /\ thread' = thread
       ELSE \/ Works /\ thread' = WithMessage(turn[t].cid, "user", t)
            \/ Fails /\ thread' = thread
    /\ status' = [status EXCEPT ![t] = "running"]
    /\ turn' = [turn EXCEPT ![t].at = "supervise",
                            ![t].state = IF turn[t].cid = None THEN saved
                                         ELSE [saved EXCEPT !.customer = turn[t].cid]]
    /\ UNCHANGED <<caller, calls, saved, rows, history>>

(***************************************************************************)
(* The graph                                                               *)
(***************************************************************************)

\* The node's state becomes the thread's last checkpoint, whoever else wrote one.
Save(t) == saved' = turn[t].state

\* supervisor_node: without a customer there is only onboarding and small talk, and
\* only onboarding can ask for a human.
Supervise(t) ==
    /\ At(t, "supervise")
    /\ Save(t)
    /\ \E intent \in {"onboarding", "smalltalk"} \cup (IF turn[t].cid = None THEN {} ELSE {"service"}) :
        Goto(t, intent)
    /\ UNCHANGED <<caller, calls, thread, rows, status, faults, history>>

\* The loop of the specialist calls tools; what one raises goes back to the model as an
\* observation.  A call that changes nothing is no step here.
Calls(t, nodes) == turn[t].at \in nodes /\ calls < MaxTools
Step(t, r) == turn' = [turn EXCEPT ![t] = r] /\ calls' = calls + 1

\* What a session wrote, over what was there.
Onto(new, old) == [l \in DOMAIN new \cup DOMAIN old |-> IF l \in DOMAIN new THEN new[l] ELSE old[l]]
Put(l, stage, old) == [k \in {l} \cup DOMAIN old |-> IF k = l THEN stage ELSE old[k]]

\* create_lead
CreateLead(t) ==
    /\ Calls(t, {"onboarding"}) /\ ~turn[t].broken
    /\ Step(t, [turn[t] EXCEPT !.leads = Put(t, "new", @), !.state.lead = t])
    /\ UNCHANGED <<caller, saved, thread, rows, status, faults, history>>

\* session.get: a lead of this session or a committed one.
HasLead(t) == turn[t].state.lead \in DOMAIN turn[t].leads \cup DOMAIN leads
Staged(t, stage) == IF HasLead(t) THEN Put(turn[t].state.lead, stage, turn[t].leads) ELSE turn[t].leads

\* score_intent: a score of 0.6 qualifies the lead, whatever its stage.
Qualify(t) ==
    /\ Calls(t, {"onboarding"}) /\ ~turn[t].broken /\ HasLead(t)
    /\ Step(t, [turn[t] EXCEPT !.leads = Staged(t, "qualified")])
    /\ UNCHANGED <<caller, saved, thread, rows, status, faults, history>>

\* collect_kyc_field: an invalid value is not kept; a later one replaces an earlier
\* (values are not told apart here), and the status stays.
Collect(t, f) ==
    /\ Calls(t, {"onboarding"}) /\ f \notin turn[t].state.fields
    /\ Step(t, [turn[t] EXCEPT !.state.fields = @ \cup {f}])
    /\ UNCHANGED <<caller, saved, thread, rows, status, faults, history>>

\* verify_kyc; the audit row has a transaction of its own.
Verify(t) ==
    /\ Calls(t, {"onboarding"}) /\ turn[t].state.fields = Fields
    /\ \E verdict \in {"verified", "refused"} :
        /\ Step(t, [turn[t] EXCEPT !.state.kyc = verdict])
        /\ \/ Works /\ audited' = (audited \/ verdict = "verified")
           \/ Fails /\ audited' = audited
    /\ UNCHANGED <<caller, saved, thread, rows, status, committed, peak>>

\* Variant: the prompt alone keeps the order.
PromptOnly(t) == TRUE

\* "ENFORCED KYC gate lives here, not in the prompt."
Gate(t) == turn[t].state.kyc = "verified"

\* open_account with _ensure_customer: the run's customer, not the thread's, decides
\* whether one is created.
Open(t) ==
    /\ Calls(t, {"onboarding"}) /\ ~turn[t].broken /\ Gate(t)
    /\ LET new == turn[t].cid = None
           c   == IF new THEN t ELSE turn[t].cid IN
       Step(t, [turn[t] EXCEPT !.cid = c, !.made = @ \/ new, !.opened = @ + 1,
                               !.leads = Staged(t, "converted"),
                               !.state.customer = IF new THEN t ELSE @])
    /\ UNCHANGED <<caller, saved, thread, rows, status, faults, history>>

\* Variant: a handoff is not looked for.
AlwaysNew(t) == TRUE

\* "Guard: one active handoff per conversation."
NoneActive(t) == handoffs = {} /\ ~turn[t].handoff

\* request_human_handoff
RequestHandoff(t) ==
    /\ Calls(t, {"onboarding", "service"}) /\ ~turn[t].broken /\ NoneActive(t)
    /\ Step(t, [turn[t] EXCEPT !.handoff = TRUE])
    /\ UNCHANGED <<caller, saved, thread, rows, status, faults, history>>

\* A flush fails: the session must be rolled back before it does anything else, and
\* no tool does that.
Break(t) ==
    /\ turn[t].at \in {"onboarding", "service"} /\ ~turn[t].broken /\ Fails
    /\ turn' = [turn EXCEPT ![t].broken = TRUE]
    /\ UNCHANGED <<caller, calls, saved, thread, rows, status, history>>

\* The final answer is streamed; the node ends.
Answered(t) ==
    /\ turn[t].at \in {"onboarding", "service", "smalltalk"}
    /\ Save(t)
    /\ Goto(t, "synthesize")
    /\ UNCHANGED <<caller, calls, thread, rows, status, faults, history>>

\* No provider answers, which no node catches: no checkpoint of that node.
Raise(t) ==
    /\ turn[t].at \in {"onboarding", "service", "smalltalk"} /\ Fails
    /\ Goto(t, "rollback")
    /\ UNCHANGED <<caller, calls, saved, thread, rows, status, history>>

\* synthesize_node: policy, audit, and the episodic memory of the turn, whose error is
\* swallowed but not undone.
Synthesize(t) ==
    /\ At(t, "synthesize")
    /\ Save(t)
    /\ \/ Works /\ Goto(t, "commit")
       \/ Fails /\ turn[t].cid # None
          /\ turn' = [turn EXCEPT ![t].at = "commit", ![t].broken = TRUE]
    /\ UNCHANGED <<caller, calls, thread, rows, status, history>>

(***************************************************************************)
(* The end of run_chat_turn                                                *)
(***************************************************************************)

\* Variant: a session that cannot be committed is no obstacle to the reply.
GoOn(t) == "reply"

AfterBroken(t) == "rollback"

\* A session nobody commits any more (left) leaves nothing behind.
Commit(t) ==
    /\ At(t, "commit")
    /\ IF turn[t].left THEN Over(t) /\ UNCHANGED <<rows, status, committed>>
       ELSE IF turn[t].broken THEN Goto(t, AfterBroken(t)) /\ UNCHANGED <<rows, status, committed>>
       ELSE /\ customers' = customers \cup (IF turn[t].made THEN {t} ELSE {})
            /\ accounts' = [accounts EXCEPT ![t] = turn[t].opened]
            /\ leads' = Onto(turn[t].leads, leads)
            /\ handoffs' = handoffs \cup (IF turn[t].handoff THEN {t} ELSE {})
            /\ committed' = committed \cup {t}
            /\ status' = [status EXCEPT ![t] = "completed"]
            /\ Goto(t, "reply")
    /\ UNCHANGED <<caller, calls, saved, thread, faults, audited, peak>>

\* session.rollback, then the run and the caller are told.
Rollback(t) ==
    /\ At(t, "rollback")
    /\ status' = IF turn[t].left THEN status ELSE [status EXCEPT ![t] = "failed"]
    /\ Over(t)
    /\ UNCHANGED <<caller, calls, saved, thread, rows, faults, history>>

\* The customer of the final state, which may come from an earlier turn.
Owner(t) == IF turn[t].state.customer # None THEN turn[t].state.customer ELSE turn[t].cid

\* The reply; the title is left to a task of its own, the facts to module Memory.
Reply(t) ==
    /\ At(t, "reply")
    /\ \/ /\ Works
          /\ thread' = IF Exists(Owner(t)) THEN WithMessage(Owner(t), "assistant", t) ELSE thread
       \/ Fails /\ thread' = thread
    /\ Close(t, IF Owner(t) = None THEN "over" ELSE "title")
    /\ UNCHANGED <<caller, calls, saved, rows, status, history>>

\* The caller is gone and the request cancelled: its session is closed, the run's row
\* stays as it is, and the task that drives the graph goes on by itself.
Leave(t) ==
    /\ turn[t].at \notin {"idle", "over", "titled"} /\ ~turn[t].left /\ Fails
    /\ IF turn[t].at \in {"begin", "reply", "title"} THEN Over(t)
       ELSE turn' = [turn EXCEPT ![t].left = TRUE]
    /\ UNCHANGED <<caller, calls, saved, thread, rows, status, history>>

(***************************************************************************)
(* Titles, renaming, deleting, the console                                 *)
(***************************************************************************)

\* _maybe_generate_title, up to the model's answer.
ReadTitle(t) ==
    /\ At(t, "title")
    /\ Goto(t, IF thread.owner # None /\ thread.title = "none" /\ thread.asked # {} THEN "titled"
               ELSE "over")
    /\ UNCHANGED <<caller, calls, saved, thread, rows, status, faults, history>>

\* Whatever the title is by now; an UPDATE of a deleted row fails and is logged.
WriteTitle(t) ==
    /\ At(t, "titled")
    /\ \E title \in {"generated", thread.title} :
        thread' = IF thread.owner = None THEN thread ELSE [thread EXCEPT !.title = title]
    /\ Over(t)
    /\ UNCHANGED <<caller, calls, saved, rows, status, faults, history>>

Rename ==
    /\ thread.owner = Self /\ caller = Self
    /\ thread' = [thread EXCEPT !.title = "renamed"]
    /\ UNCHANGED <<caller, calls, saved, turn, rows, status, faults, history>>

\* The messages go with the row, the checkpoints stay.
Delete ==
    /\ thread.owner = Self /\ caller = Self
    /\ thread' = NoThread
    /\ UNCHANGED <<caller, calls, saved, turn, rows, status, faults, history>>

\* Staff resolve a handoff (module StaffDecisions).
Resolve(t) ==
    /\ t \in handoffs
    /\ handoffs' = handoffs \ {t}
    /\ UNCHANGED <<caller, calls, saved, turn, thread, customers, accounts, leads, status, faults, history>>

Next ==
    \/ \E t \in Turns :
        \/ Ask(t) \/ Begin(t) \/ Supervise(t)
        \/ CreateLead(t) \/ Qualify(t) \/ Verify(t) \/ Open(t) \/ RequestHandoff(t)
        \/ \E f \in Fields : Collect(t, f)
        \/ Break(t) \/ Answered(t) \/ Raise(t) \/ Synthesize(t)
        \/ Commit(t) \/ Rollback(t) \/ Reply(t) \/ Leave(t)
        \/ ReadTitle(t) \/ WriteTitle(t) \/ Resolve(t)
    \/ Rename \/ Delete

Spec == Init /\ [][Next]_vars

(***************************************************************************)
(* Properties                                                              *)
(***************************************************************************)

TypeOK ==
    /\ caller \in {Self, None} /\ saved \in Scratch
    /\ \A t \in Turns : /\ turn[t].cid \in Ids /\ turn[t].state \in Scratch
                        /\ turn[t].opened \in 0 .. MaxTools
    /\ thread.owner \in Ids /\ thread.asked \subseteq Turns /\ thread.answered \subseteq Turns
    /\ customers \subseteq Turns /\ accounts \in [Turns -> 0 .. MaxTools]
    /\ DOMAIN leads \subseteq Turns /\ handoffs \subseteq Turns
    /\ status \in [Turns -> {"none", "running", "completed", "failed"}]
    /\ calls \in 0 .. MaxTools /\ faults \in 0 .. MaxFaults /\ audited \in BOOLEAN
    /\ committed \subseteq Turns /\ peak \in 0 .. Cardinality(Turns)

\* A reply the customer finds in the history stands for work that was committed,
\* whatever failed on the way.
RepliesWereCommitted == thread.answered \subseteq committed

\* No account without a verification that succeeded, and the audit trail shows it:
\* across turns, overlapping turns, failed runs and the checkpoints they leave.
AccountsFollowVerification ==
    (\E t \in Turns : accounts[t] > 0) => audited \/ faults > 0

\* A thread's prospect becomes one customer and waits for one human: only turns that
\* overlap, or a lost reply, make it more.
DuplicatesNeedOverlap ==
    /\ Cardinality(customers) <= peak + faults
    /\ Cardinality(handoffs) <= peak
=============================================================================
