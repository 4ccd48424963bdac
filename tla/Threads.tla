-------------------------------- MODULE Threads --------------------------------
(***************************************************************************)
(* The threads of the store and those who talk in them: the web page with  *)
(* its sidebar (which counts what is new in Main), the completed tasks     *)
(* whose results the orchestrator appends, and the terminal of             *)
(* `baara chat`, a process of its own.  The event stream of the page's     *)
(* chat is modelled in Chat.  One server names and renames the threads.    *)
(*                                                                         *)
(* A thread is its title: the number of the message it was named after,    *)
(* Untitled for the placeholder "New Thread", which anybody may also type, *)
(* Otherwise for a name that does not come from a stored message (Main, a  *)
(* renaming, a line of the terminal, a message that was lost).  The        *)
(* terminal stores no messages: a turn of it is one step, nobody else      *)
(* touching what it uses.                                                  *)
(* Init, Next and the rest are named after the module, for the proofs that *)
(* extend it beside another component.                                     *)
(***************************************************************************)
EXTENDS Naturals, Sequences, SequencesExt, FiniteSets

CONSTANTS MaxThreads,  \* bound: threads, Main included
          MaxMessages, \* bound: messages stored
          Renamed,     \* bound: the threads that are renamed by hand
          Requests     \* bound: the sidebar's requests under way together
ASSUME ThreadsAssumption ==
  MaxThreads \in Nat \ {0} /\ MaxMessages \in Nat

VARIABLES
  threads,   \* id -> title
  messages,  \* in the order they were stored: [thread, role]
  passed,    \* history: messages that gave a thread no name when it had none
  replying,  \* the messages whose reply is being streamed
  chat,      \* of the page: the thread it shows, 0 for none, and streaming
  badge,     \* mainUnreadCount
  seen,      \* mainLastSeenCountRef
  requests,  \* the sidebar's
  terminal   \* threadId (0: null) and the threads whose turns sessionId knows

threadsVars == <<threads, messages, passed, replying, chat, badge, seen, requests, terminal>>
store == <<threads, messages, passed>>
sidebar == <<badge, seen, requests>>

Main == 1
Untitled == 0
Otherwise == MaxMessages + 1
Ids == DOMAIN threads
Messages(t, role) ==
  {m \in DOMAIN messages : messages[m].thread = t /\ messages[m].role = role}
Completions == Cardinality(Messages(Main, "agent"))
AppendThreadMessage(t, role) == messages' = Append(messages, [thread |-> t, role |-> role])

Free == [kind |-> "none", served |-> FALSE, answer |-> 0]
Fresh(t) == [thread |-> t, session |-> {}]

ThreadsInit ==
  /\ threads = <<Otherwise>> /\ messages = <<>> /\ passed = {} /\ replying = {}
  /\ chat = [thread |-> 0, streaming |-> FALSE] /\ badge = 0 /\ seen = 0
  /\ requests = [r \in Requests |-> Free] /\ terminal = Fresh(0)
-----------------------------------------------------------------------------
(***************************************************************************)
(* The page's chat: a thread is created with the first message, or named   *)
(* after it when it has the placeholder; the message is stored before the  *)
(* reply streams, the reply when it is complete.                           *)
(***************************************************************************)
\* updateThread.
Titled(t, title) == [threads EXCEPT ![t] = title]

\* Mutation of Named: every message names its thread.
NamedAlways(t, title) == Titled(t, title)

Named(t, title) == IF threads[t] = Untitled THEN Titled(t, title) ELSE threads

(* What the thread is to be named.  Untitled leaves it the placeholder: the *)
(* message reads so, or the new title of a thread cannot be saved, which is *)
(* no error.                                                               *)
Naming(m) == {m, Untitled}

PostMessage ==
  /\ ~chat.streaming /\ Len(messages) < MaxMessages
  /\ \E title \in Naming(Len(messages) + 1) :
       /\ passed' = IF title = Untitled /\ (chat.thread # 0 => threads[chat.thread] = Untitled)
                    THEN passed \cup {Len(messages) + 1} ELSE passed
       /\ IF chat.thread # 0
          THEN threads' = Named(chat.thread, title) /\ chat' = [chat EXCEPT !.streaming = TRUE]
          ELSE /\ Len(threads) < MaxThreads /\ threads' = Append(threads, title)
               /\ chat' = [thread |-> Len(threads'), streaming |-> TRUE]
  /\ AppendThreadMessage(chat'.thread, "user") /\ replying' = replying \cup {Len(messages')}
  /\ UNCHANGED <<sidebar, terminal>>

(* The thread is created or named, and storing the message raises: 500.    *)
PostFails ==
  /\ ~chat.streaming
  /\ \E title \in Naming(Otherwise) :
       IF chat.thread # 0 THEN threads' = Named(chat.thread, title)
       ELSE Len(threads) < MaxThreads /\ threads' = Append(threads, title)
  /\ UNCHANGED <<messages, passed, replying, chat, sidebar, terminal>>

(* The stream ends, with a reply or without.  Its loop may belong to a     *)
(* thread the page has left: streaming is cleared all the same.            *)
Reply(m) ==
  /\ m \in replying /\ replying' = replying \ {m} /\ chat' = [chat EXCEPT !.streaming = FALSE]
  /\ \/ Len(messages) < MaxMessages /\ AppendThreadMessage(messages[m].thread, "agent")
     \/ UNCHANGED messages
  /\ UNCHANGED <<threads, passed, sidebar, terminal>>

(* PUT /api/chat/sessions/:id/rename: whatever is left of the title when   *)
(* it is trimmed, the placeholder included.                                *)
RenameThread(t) ==
  /\ t \in Renamed
  /\ \/ threads' = Titled(t, Otherwise) /\ passed' = passed
     \/ threads' = Titled(t, Untitled) /\ passed' = passed \cup Messages(t, "user")
  /\ UNCHANGED <<messages, replying, chat, sidebar, terminal>>

(* A task completes, or asks for input: the message goes to its target     *)
(* thread, to Main without one.                                            *)
TaskTells(t) ==
  /\ Len(messages) < MaxMessages /\ AppendThreadMessage(t, "agent")
  /\ UNCHANGED <<threads, passed, replying, chat, sidebar, terminal>>
-----------------------------------------------------------------------------
(***************************************************************************)
(* The sidebar: an interval refreshes the badge, a click on Main fetches   *)
(* its messages to learn how many there are, the button creates a thread   *)
(* and shows it when it is answered, wherever the page is by then.         *)
(***************************************************************************)
Elsewhere == <<store, replying, terminal>>
Send(r, kind) == requests[r] = Free /\ requests' = [requests EXCEPT ![r].kind = kind]
Serve(r, answer) == requests' = [requests EXCEPT ![r].served = TRUE, ![r].answer = answer]
Answered(r, kind) ==
  /\ requests[r].kind = kind /\ requests[r].served
  /\ requests' = [requests EXCEPT ![r] = Free]

RefreshMainUnread(r) == Send(r, "count") /\ UNCHANGED <<Elsewhere, chat, badge, seen>>

HandleSelectThread(r, t) ==
  /\ chat' = [thread |-> t, streaming |-> FALSE]
  /\ IF t = Main THEN Send(r, "seen") ELSE UNCHANGED requests
  /\ UNCHANGED <<Elsewhere, badge, seen>>

HandleNewThread(r) == Send(r, "new") /\ UNCHANGED <<Elsewhere, chat, badge, seen>>

ListThreadMessages(r) ==
  /\ requests[r].kind \in {"count", "seen"} /\ ~requests[r].served
  /\ Serve(r, Completions) /\ UNCHANGED <<Elsewhere, chat, badge, seen>>

CreateThread(r) ==
  /\ requests[r].kind = "new" /\ ~requests[r].served /\ Len(threads) < MaxThreads
  /\ threads' = Append(threads, Untitled) /\ Serve(r, Len(threads'))
  /\ UNCHANGED <<messages, passed, replying, terminal, chat, badge, seen>>

\* Mutation of Unread: the callback keeps the count of its first rendering.
UnreadOnce(count) == count

Unread(count) == IF count > seen THEN count - seen ELSE 0

TakeCount(r) ==
  /\ Answered(r, "count") /\ badge' = Unread(requests[r].answer)
  /\ UNCHANGED <<Elsewhere, chat, seen>>

TakeSeen(r) ==
  /\ Answered(r, "seen") /\ seen' = requests[r].answer /\ badge' = 0
  /\ UNCHANGED <<Elsewhere, chat>>

TakeNew(r) ==
  /\ Answered(r, "new") /\ chat' = [thread |-> requests[r].answer, streaming |-> FALSE]
  /\ UNCHANGED <<Elsewhere, badge, seen>>

(* A request that fails changes nothing, but for the button's, which       *)
(* clears the chat.                                                        *)
Lose(r) ==
  /\ requests[r] # Free /\ requests' = [requests EXCEPT ![r] = Free]
  /\ chat' = IF requests[r].kind = "new" THEN [thread |-> 0, streaming |-> FALSE] ELSE chat
  /\ UNCHANGED <<Elsewhere, badge, seen>>
-----------------------------------------------------------------------------
(***************************************************************************)
(* The terminal: one line at a time, a slash command or a turn.            *)
(***************************************************************************)
Web == <<messages, passed, replying, chat, badge, seen, requests>>

\* Mutation of SwitchThread: the session is taken along.
SwitchThreadOnly(t) == terminal' = [terminal EXCEPT !.thread = t] /\ UNCHANGED <<threads, Web>>

(* /thread <id>; /new and a new process without --thread are t = 0.        *)
SwitchThread(t) == terminal' = Fresh(t) /\ UNCHANGED <<threads, Web>>

(* A turn.  Its session is remembered with the result; the thread is       *)
(* created after the stream has ended without an error.  A turn may fail   *)
(* after its result, or before it in a session that is resumed; one that   *)
(* fails before it in a new session leaves nothing.                        *)
Told == terminal.session \cup {terminal.thread}

Turn ==
  /\ IF terminal.thread # 0
     THEN terminal' = [terminal EXCEPT !.session = Told] /\ UNCHANGED threads
     ELSE /\ Len(threads) < MaxThreads
          /\ \E title \in Naming(Otherwise) : threads' = Append(threads, title)
          /\ terminal' = [thread |-> Len(threads'), session |-> Told]
  /\ UNCHANGED Web

TurnFails == terminal' = [terminal EXCEPT !.session = Told] /\ UNCHANGED <<threads, Web>>

ThreadsNext ==
  \/ PostMessage \/ PostFails \/ Turn \/ TurnFails
  \/ \E m \in 1 .. MaxMessages : Reply(m)
  \/ \E t \in Ids : TaskTells(t) \/ RenameThread(t)
  \/ \E r \in Requests : \/ RefreshMainUnread(r) \/ HandleNewThread(r)
                         \/ ListThreadMessages(r) \/ CreateThread(r)
                         \/ TakeCount(r) \/ TakeSeen(r) \/ TakeNew(r) \/ Lose(r)
                         \/ \E t \in Ids : HandleSelectThread(r, t)
  \/ \E t \in Ids \cup {0} : SwitchThread(t)

(* The interval of the badge; every request ends, answered or lost; and    *)
(* the network does not lose all of the interval's.                        *)
ThreadsSpec ==
  /\ ThreadsInit /\ [][ThreadsNext]_threadsVars
  /\ SF_threadsVars(\E r \in Requests : RefreshMainUnread(r))
  /\ \A r \in Requests :
       WF_threadsVars(ListThreadMessages(r) \/ TakeCount(r) \/ TakeSeen(r) \/ TakeNew(r) \/ Lose(r))
  /\ SF_threadsVars(\E r \in Requests : requests[r].kind = "count" /\ ListThreadMessages(r))
  /\ SF_threadsVars(\E r \in Requests : TakeCount(r))
-----------------------------------------------------------------------------
\* Threads, messages that belong to them, the page, its requests, the terminal.
ThreadsTypeOK ==
  /\ threads \in Seq(0 .. Otherwise)
  /\ messages \in Seq([thread : Ids, role : {"user", "agent"}]) /\ replying \subseteq DOMAIN messages
  /\ passed \subseteq DOMAIN messages
  /\ chat \in [thread : Ids \cup {0}, streaming : BOOLEAN]
  /\ badge \in 0 .. Completions /\ seen \in 0 .. Completions
  /\ requests \in [Requests -> [kind : {"none", "count", "seen", "new"}, served : BOOLEAN,
                                answer : 0 .. MaxMessages + MaxThreads]]
  /\ terminal \in [thread : Ids \cup {0}, session : SUBSET (Ids \cup {0})]

\* A thread whose title does not come from elsewhere is called after the first message
\* a person sent in it that could name it, whichever way it was created and whatever
\* was sent, lost, answered or appended by tasks before and after.  It could unless its
\* title was not saved or reads as the placeholder, or a renaming brought that back.
NamedAfterFirstMessage ==
  \A t \in Ids : threads[t] # Otherwise =>
    LET candidates == Messages(t, "user") \ passed IN
    IF candidates = {} THEN threads[t] = Untitled
    ELSE threads[t] \in candidates /\ \A m \in candidates : threads[t] <= m

\* The session the terminal resumes knows of one thread only, the one the next turn is
\* taken in, also after turns that failed before or after their result; the turns taken
\* before that thread was created had none.
SessionStaysInThread == terminal.session \subseteq {0, terminal.thread}

\* However polls, clicks on Main, lost and late answers interleave, the badge in the
\* end counts what agents added to Main since the count the sidebar took as seen.
BadgeConverges == <>[](badge = IF Completions > seen THEN Completions - seen ELSE 0)
=============================================================================
