------------------------------ MODULE Manager -------------------------------
(***************************************************************************)
(* The manager of a daemon and what it listens to: the event hub, on which *)
(* every part of the daemon publishes without waiting, the loop that acts  *)
(* on events (by rule, or by asking a language model), and the loop that   *)
(* answers the manager's inbox.                                            *)
(*                                                                         *)
(* One team and one daemon.  Left out: subscribers other than the manager  *)
(* (each has a channel of its own), and the agents' mailboxes, which no    *)
(* code of the daemon reads.                                               *)
(***************************************************************************)
EXTENDS Naturals, Sequences, FiniteSets

CONSTANTS
  MaxTasks, MaxMessages,  \* bounds: rows of tasks and messages
  NoTask,
  Cap,                    \* capacity of a subscriber's channel
  Batch,                  \* messages listed at a time
  MaxOps,                 \* bound: posts, announcements and the model's calls
  MaxFaults               \* bound: crashes and failed statements

ASSUME ManagerAssumption ==
  /\ MaxTasks \in Nat /\ MaxMessages \in Nat /\ MaxOps \in Nat /\ MaxFaults \in Nat
  /\ Cap \in Nat \ {0} /\ Batch \in Nat \ {0}
  /\ NoTask \notin 1..MaxTasks

Tasks == 1..MaxTasks
Messages == 1..MaxMessages

VARIABLES
  llm,        \* the manager asks a language model
  status,     \* of each task
  about,      \* the task whose follow-up it is
  asking,     \* it has received an event and talks to the model
  announcing, \* for each task, the announcements of done that are due
  chan,       \* the manager's channel
  msg,        \* the rows of messages
  inbox,      \* the inbox loop: its batch, and what it does with the head
  ops, faults,
  announced, lost,  \* history: announcements of done, those that never
                    \* reached the rule
  handled, unsent   \* history: answers to a message, answers not inserted

tables == <<status, about>>
history == <<announced, lost, handled, unsent>>
vars == <<llm, asking, status, about, announcing, chan, msg, inbox, ops, faults,
          announced, lost, handled, unsent>>

(* An update carries no status done; a silent event carries no team or is  *)
(* of a type that the manager ignores.                                     *)
Event == [type : {"done", "update", "message", "silent"}, task : Tasks \cup {NoTask}]
Ev(type) == [type |-> type, task |-> NoTask]

(* What the manager does with a message depends on its text: a command for *)
(* the shell, a text long enough to be a task, or another.                 *)
Kinds == {"shell", "task", "chat"}
Message == [state : {"none", "unread", "read"}, from : {"human", "manager"},
            kind : Kinds]
NoMessage == [state |-> "none", from |-> "human", kind |-> "chat"]

(* "output", "created" and "got" are the replies to be sent.               *)
Steps == {"handle", "output", "created", "got", "mark"}
Asleep == [batch |-> <<>>, step |-> "handle"]

Init ==
  /\ llm \in BOOLEAN
  /\ status = [i \in Tasks |-> IF i = 1 THEN "open" ELSE "none"]
  /\ about = [i \in Tasks |-> NoTask]
  /\ asking = FALSE /\ chan = <<>>
  /\ announcing = [i \in Tasks |-> 0]
  /\ msg = [m \in Messages |-> NoMessage]
  /\ inbox = Asleep
  /\ ops = 0 /\ faults = 0
  /\ announced = [i \in Tasks |-> 0]
  /\ lost = [i \in Tasks |-> 0]
  /\ handled = [m \in Messages |-> 0]
  /\ unsent = [m \in Messages |-> 0]

-----------------------------------------------------------------------------
(* The statements and the hub.                                             *)

FreeTask == {i \in Tasks : status[i] = "none"}
FreeMessage == {m \in Messages : msg[m].state = "none"}
First(S) == CHOOSE i \in S : \A j \in S : i <= j

CreateTask(of) ==
  /\ FreeTask # {}
  /\ status' = [status EXCEPT ![First(FreeTask)] = "open"]
  /\ about' = [about EXCEPT ![First(FreeTask)] = of]

(* A message to the manager.                                               *)
CreateMessage(from, kind) ==
  /\ FreeMessage # {}
  /\ msg' = [msg EXCEPT ![First(FreeMessage)] =
               [state |-> "unread", from |-> from, kind |-> kind]]

(* PublishJSON, one event after the other: dropped when the channel is full*)
BadPublishJSON(q, events) == q \o events                \* nothing is dropped

PublishJSON(q, events) ==
  q \o SubSeq(events, 1, IF Len(events) <= Cap - Len(q) THEN Len(events)
                         ELSE Cap - Len(q))

Done(i) == [type |-> "done", task |-> i]
Waiting(i) == Cardinality({k \in DOMAIN chan : chan[k] = Done(i)})

-----------------------------------------------------------------------------
(* Tasks become done, and are announced as done, by the scheduler and by   *)
(* requests, of which each announces the status the task has.              *)
Finish(i) ==
  /\ status[i] # "none" /\ ops < MaxOps
  /\ status' = [status EXCEPT ![i] = "done"]
  /\ announcing' = [announcing EXCEPT ![i] = @ + 1]
  /\ announced' = [announced EXCEPT ![i] = @ + 1]
  /\ ops' = ops + 1
  /\ UNCHANGED <<llm, asking, about, chan, msg, inbox, faults, lost, handled,
                 unsent>>

Announce(i) ==
  /\ announcing[i] > 0
  /\ announcing' = [announcing EXCEPT ![i] = @ - 1]
  /\ chan' = PublishJSON(chan, <<Done(i)>>)
  /\ lost' = [lost EXCEPT ![i] = IF Len(chan) < Cap THEN @ ELSE @ + 1]
  /\ UNCHANGED <<llm, asking, tables, msg, inbox, ops, faults, announced,
                 handled, unsent>>

(* Any other event: activity of an agent, or a task that changed.          *)
OtherEvent(type) ==
  /\ ops < MaxOps
  /\ chan' = PublishJSON(chan, <<Ev(type)>>)
  /\ ops' = ops + 1
  /\ UNCHANGED <<llm, asking, tables, announcing, msg, inbox, faults, history>>

(* POST /teams/{team}/messages; the sender may be anybody.                 *)
Post(from, kind) ==
  /\ ops < MaxOps
  /\ CreateMessage(from, kind)
  /\ chan' = PublishJSON(chan, <<Ev("message")>>)
  /\ ops' = ops + 1
  /\ UNCHANGED <<llm, asking, tables, announcing, inbox, faults, history>>

-----------------------------------------------------------------------------
(* The rule-based manager: a done task gets a follow-up.  A statement may  *)
(* fail, or the task be gone.                                              *)
BadFollowUp ==                                          \* the status is not looked at
  /\ ~llm /\ chan # <<>> /\ Head(chan).type \in {"done", "update"}
  /\ CreateTask(IF Head(chan).task = NoTask THEN 1 ELSE Head(chan).task)
  /\ chan' = PublishJSON(Tail(chan), <<Ev("update")>>)
  /\ UNCHANGED <<llm, asking, announcing, msg, inbox, ops, faults, history>>

FollowUp ==
  /\ ~llm /\ chan # <<>> /\ Head(chan).type = "done"
  /\ CreateTask(Head(chan).task)
  /\ chan' = PublishJSON(Tail(chan), <<Ev("update")>>)
  /\ UNCHANGED <<llm, asking, announcing, msg, inbox, ops, faults, history>>

FollowUpFails ==
  /\ ~llm /\ chan # <<>> /\ Head(chan).type = "done" /\ faults < MaxFaults
  /\ chan' = Tail(chan)
  /\ lost' = [lost EXCEPT ![Head(chan).task] = @ + 1]
  /\ faults' = faults + 1
  /\ UNCHANGED <<llm, asking, tables, announcing, msg, inbox, ops, announced,
                 handled, unsent>>

BadIgnore ==                                            \* the loop ends at such an event
  /\ chan # <<>> /\ llm /\ Head(chan).type = "silent"
  /\ chan' = Tail(chan)
  /\ UNCHANGED <<llm, asking, tables, announcing, msg, inbox, ops, faults,
                 history>>

Ignore ==
  /\ ~asking /\ chan # <<>> /\ Head(chan).type \in (IF llm THEN {"silent"}
                                         ELSE {"update", "message", "silent"})
  /\ chan' = Tail(chan)
  /\ UNCHANGED <<llm, asking, tables, announcing, msg, inbox, ops, faults,
                 history>>

(* handleLLMEvent: the model is asked, and answers with any number of      *)
(* calls, or not at all; meanwhile the channel fills.  advance_task and    *)
(* assign_task publish no team.                                            *)
AskLLM ==
  /\ llm /\ ~asking /\ chan # <<>> /\ Head(chan).type # "silent"
  /\ asking' = TRUE
  /\ chan' = Tail(chan)
  /\ UNCHANGED <<llm, tables, announcing, msg, inbox, ops, faults, history>>

ExecuteLLMTool ==
  /\ asking /\ ops < MaxOps
  /\ ops' = ops + 1
  /\ \/ /\ CreateTask(NoTask)
        /\ chan' = PublishJSON(chan, <<Ev("update")>>)
        /\ UNCHANGED msg
     \/ /\ \E i \in Tasks \ FreeTask, s \in {"open", "done"} :
             status' = [status EXCEPT ![i] = s]
        /\ chan' = PublishJSON(chan, <<Ev("silent")>>)
        /\ UNCHANGED <<about, msg>>
     \/ /\ UNCHANGED msg \/ \E kind \in Kinds : CreateMessage("manager", kind)
        /\ chan' = PublishJSON(chan, <<Ev("message")>>)
        /\ UNCHANGED tables
  /\ UNCHANGED <<llm, asking, announcing, inbox, faults, history>>

LLMAnswered ==
  /\ asking /\ asking' = FALSE
  /\ UNCHANGED <<llm, tables, announcing, chan, msg, inbox, ops, faults, history>>

-----------------------------------------------------------------------------
(* PollInbox.                                                              *)

BadUnread ==                                            \* skips the manager's own
  {m \in Messages : msg[m].state = "unread" /\ msg[m].from = "human"}

Unread == {m \in Messages : msg[m].state = "unread"}

(* The n oldest of a set of messages, oldest first.                        *)
Oldest(S, n) ==
  LET Before(m) == Cardinality({k \in S : k <= m})
      size == IF Cardinality(S) <= n THEN Cardinality(S) ELSE n
  IN [k \in 1..size |-> CHOOSE m \in S : Before(m) = k]

ListUnprocessedMessages ==
  /\ inbox.batch = <<>> /\ Unread # {}
  /\ inbox' = [batch |-> Oldest(Unread, Batch), step |-> "handle"]
  /\ UNCHANGED <<llm, asking, tables, announcing, chan, msg, ops, faults,
                 history>>

(* Each statement may fail.  Only the error of CreateTask makes the        *)
(* handler do something else; the other two are dropped.                   *)
Fault == faults < MaxFaults /\ faults' = faults + 1

(* The handler decides on its reply: a shell command has returned; a task  *)
(* has been created, or not, after an error or for want of a row within    *)
(* MaxTasks; or the text asks for nothing.                                 *)
HandleInboxMessage ==
  LET m == Head(inbox.batch)
      Reply(r) == inbox' = [inbox EXCEPT !.step = r]
  IN /\ inbox.batch # <<>> /\ inbox.step = "handle"
     /\ \/ msg[m].kind = "shell" /\ Reply("output") /\ UNCHANGED <<tables, faults>>
        \/ /\ msg[m].kind = "task" /\ CreateTask(NoTask)
           /\ Reply("created") /\ UNCHANGED faults
        \/ /\ msg[m].kind = "task" /\ Reply("got") /\ UNCHANGED tables
           /\ Fault \/ (FreeTask = {} /\ UNCHANGED faults)
        \/ msg[m].kind = "chat" /\ Reply("got") /\ UNCHANGED <<tables, faults>>
     /\ UNCHANGED <<llm, asking, announcing, chan, msg, ops, history>>

(* If the manager wrote the message itself, the reply is a message to the  *)
(* manager: "Created task #..." is long enough to be a task, "Got: ..."    *)
(* may be, and a command may print anything.                               *)
ReplyKinds == [output |-> Kinds, created |-> {"task"}, got |-> {"task", "chat"}]

InsertReply(m, kinds) ==
  IF msg[m].from = "manager" /\ FreeMessage # {}
  THEN \E kind \in kinds : CreateMessage("manager", kind) ELSE UNCHANGED msg

(* The INSERT and the events, which follow also when it has failed.        *)
ReplyToSender ==
  LET m == Head(inbox.batch)
      Answer == Ev("message")
  IN /\ inbox.batch # <<>> /\ inbox.step \in DOMAIN ReplyKinds
     /\ inbox' = [inbox EXCEPT !.step = "mark"]
     /\ chan' = PublishJSON(chan, IF inbox.step = "output" THEN <<Answer>>
                                  ELSE <<Answer, Answer>>)
     /\ \/ /\ InsertReply(m, ReplyKinds[inbox.step])
           /\ handled' = [handled EXCEPT ![m] = @ + 1]
           /\ UNCHANGED <<faults, unsent>>
        \/ /\ Fault
           /\ unsent' = [unsent EXCEPT ![m] = @ + 1]
           /\ UNCHANGED <<msg, handled>>
     /\ UNCHANGED <<llm, asking, tables, announcing, ops, announced, lost>>

Rest == [batch |-> Tail(inbox.batch), step |-> "handle"]

BadMarkMessageProcessed ==                              \* only in memory
  /\ inbox.batch # <<>> /\ inbox.step = "mark"
  /\ inbox' = Rest
  /\ UNCHANGED <<llm, asking, tables, announcing, chan, msg, ops, faults,
                 history>>

MarkMessageProcessed ==
  /\ inbox.batch # <<>> /\ inbox.step = "mark"
  /\ msg' = [msg EXCEPT ![Head(inbox.batch)].state = "read"]
  /\ inbox' = Rest
  /\ UNCHANGED <<llm, asking, tables, announcing, chan, ops, faults, history>>

(* The error of the statement is dropped.                                  *)
MarkFails ==
  /\ inbox.batch # <<>> /\ inbox.step = "mark" /\ Fault
  /\ inbox' = Rest
  /\ UNCHANGED <<llm, asking, tables, announcing, chan, msg, ops, history>>

(* The daemon dies and is started again, with an empty hub.                *)
Crash ==
  /\ faults < MaxFaults
  /\ faults' = faults + 1
  /\ chan' = <<>> /\ inbox' = Asleep /\ asking' = FALSE
  /\ announcing' = [i \in Tasks |-> 0]
  /\ lost' = [i \in Tasks |-> lost[i] + Waiting(i) + announcing[i]]
  /\ UNCHANGED <<llm, tables, msg, ops, announced,
                 handled, unsent>>

-----------------------------------------------------------------------------
EventStep == FollowUp \/ FollowUpFails \/ Ignore \/ AskLLM \/ LLMAnswered
InboxStep ==
  \/ ListUnprocessedMessages \/ HandleInboxMessage \/ ReplyToSender
  \/ MarkMessageProcessed \/ MarkFails

Next ==
  \/ EventStep \/ ExecuteLLMTool \/ InboxStep \/ Crash
  \/ \E i \in Tasks : Finish(i) \/ Announce(i)
  \/ \E type \in {"update", "silent"} : OtherEvent(type)
  \/ \E from \in {"human", "manager"}, kind \in Kinds : Post(from, kind)

Spec == Init /\ [][Next]_vars

(* The two loops go on, a handler publishes what it has written, and a     *)
(* shell command, a language model and the database answer.                *)
FairSpec ==
  /\ Spec
  /\ WF_vars(EventStep) /\ WF_vars(InboxStep)
  /\ \A i \in Tasks : WF_vars(Announce(i))

-----------------------------------------------------------------------------
(* Properties.                                                             *)

TypeOK ==
  /\ llm \in BOOLEAN
  /\ status \in [Tasks -> {"none", "open", "done"}]
  /\ about \in [Tasks -> Tasks \cup {NoTask}]
  /\ announcing \in [Tasks -> Nat] /\ asking \in BOOLEAN
  /\ chan \in Seq(Event) /\ Len(chan) <= Cap
  /\ msg \in [Messages -> Message]
  /\ inbox.batch \in Seq(Messages) /\ inbox.step \in Steps
  /\ ops \in 0..MaxOps /\ faults \in 0..MaxFaults
  /\ announced \in [Tasks -> Nat] /\ lost \in [Tasks -> Nat]
  /\ handled \in [Messages -> Nat] /\ unsent \in [Messages -> Nat]

FollowUps(i) == Cardinality({j \in Tasks : about[j] = i})
Pending(i) == Waiting(i) + announcing[i]

(* The follow-ups of a task are the announcements that it is done: none is *)
(* made twice and none for anything else, with the channel full, with      *)
(* other events in between, and across restarts.                           *)
FollowUpsMatch ==
  ~llm => \A i \in Tasks : announced[i] = FollowUps(i) + lost[i] + Pending(i)

(* Every announcement that is neither dropped nor lost in a crash has its  *)
(* follow-up in the end, though follow-ups are announced as done, too.     *)
FollowUpMade ==
  \A i \in Tasks : ~llm /\ announced[i] > 0 ~> announced[i] <= FollowUps(i) + lost[i]

(* "handles each (e.g. /shell, create task, reply), marks processed": a    *)
(* message is marked only after an answer was attempted, so that one which *)
(* is marked and has no answer is one whose answer was not inserted; and   *)
(* it is answered again only after another fault, a crash or an error of   *)
(* the statement that marks it.                                            *)
AnsweredOnce ==
  \A m \in Messages :
    /\ msg[m].state = "read" /\ handled[m] = 0 => unsent[m] >= 1
    /\ handled[m] + unsent[m] <= 1 + (faults - unsent[m])

(* Every message is handled and marked, though the manager's own messages  *)
(* to itself queue up behind it.                                           *)
InboxDrains == \A m \in Messages : msg[m].state = "unread" ~> msg[m].state = "read"

=============================================================================
