--------------------------- MODULE TelegramAdapter ---------------------------
(***************************************************************************)
(* The Telegram adapter (docker/telegram-adapter/src): a process of its own *)
(* between Telegram's getUpdates and the orchestrator's HTTP API.           *)
(*                                                                          *)
(* A handler runs per update.  The handlers of a chat are chained, those of *)
(* different chats interleave at every await: calls to Telegram and to the  *)
(* orchestrator, and the file operations of the storage, whose handlers all *)
(* write the same temporary file.  Telegram (external) hands out an update  *)
(* until an offset confirms it.  A crash forgets everything but the files.  *)
(*                                                                          *)
(* The session of a chat is what the API shows of one: a status, the turns  *)
(* accepted and not ended, and the answers in its log, by update.  Nobody   *)
(* else uses it.  Left out: the typing indicator, the splitting of long     *)
(* messages, updates without text.                                          *)
(***************************************************************************)
EXTENDS Integers, Sequences, FiniteSets, SequencesExt

CONSTANTS
    Chats,
    Traffic,     \* bound: the sequences of chats that updates come from
    MaxFaults,   \* bound: how many calls and turns fail, and processes die
    Killed       \* may the adapter also die of something outside it?

ASSUME TelegramAssumption ==
    /\ Traffic \subseteq Seq(Chats)
    /\ MaxFaults \in Nat /\ Killed \in BOOLEAN

VARIABLES
    chatOf,     \* per update: its chat
    sent,       \* updates that Telegram has received
    confirmed,  \* updates that Telegram no longer hands out
    offset,     \* nextOffset - 1, 0 when it is undefined
    up,         \* is the adapter's process running?
    chain,      \* inflightByChat: per chat, the updates not yet handled
    handler,    \* per update: its handler
    known,      \* per chat: its session in memory, 0 if there is none
    tmp, disk,  \* the temporary and the real storage file, {} if absent
    server,     \* per chat: its latest session
    created,    \* per chat: how many sessions were created
    posts,      \* per chat: the updates posted, in this life of the process
    told,       \* per update: what its chat was told, in this life
    faults, crashes,  \* how many so far
    lost        \* per chat: how many sessions were created and their answer lost

Updates == DOMAIN chatOf

telegram == <<chatOf, sent, confirmed>>
files    == <<tmp, disk>>
limits   == <<faults, crashes, lost>>
adapterVars == <<telegram, offset, up, chain, handler, known, files, server,
                 created, posts, told, limits>>

Generations == 0 .. MaxFaults + 1
Records == [Chats -> Generations]
Size(records) == Cardinality({c \in Chats : records[c] # 0})

(* A file, as what was written to it last and how long it has grown.        *)
File(records, len) == [records |-> records, len |-> len]
NoRecords == [c \in Chats |-> 0]
Whole(file) == file.len = Size(file.records) /\ file.len > 0

Idle == [pc |-> "idle", then |-> "idle", fd |-> "none", text |-> NoRecords,
         saw |-> "none", reply |-> 0]
Untold == [kind |-> "none", of |-> 0, saw |-> "none"]
NoSession == [status |-> "idle", turns |-> <<>>, log |-> <<>>]

TelegramTypeOK ==
    /\ 0 <= confirmed /\ confirmed <= sent /\ sent <= Len(chatOf) /\ offset <= sent
    /\ ~up => offset = 0 /\ handler = [u \in Updates |-> Idle]
    /\ \A u \in Updates :
          /\ handler[u].pc = "idle" <=> u \notin ToSet(chain[chatOf[u]])
          /\ handler[u].pc \in {"write", "rename"} => handler[u].fd # "none"
          /\ told[u].kind \in {"none", "stale", "reply", "sorry"}
    /\ known \in Records
    /\ \A c \in Chats : server[c].turns # <<>> <=> server[c].status \in {"starting", "running"}
    /\ \A c \in Chats : known[c] \in {0, created[c]}
    /\ faults \in 0 .. MaxFaults /\ crashes \in 0 .. faults
    /\ \A c \in Chats : crashes + lost[c] \in 0 .. faults

TelegramInit ==
    /\ chatOf \in Traffic /\ sent = 0 /\ confirmed = 0 /\ offset = 0 /\ up = TRUE
    /\ chain = [c \in Chats |-> <<>>]
    /\ handler = [u \in Updates |-> Idle]
    /\ known = NoRecords /\ tmp = {} /\ disk = {}
    /\ server = [c \in Chats |-> NoSession]
    /\ created = [c \in Chats |-> 0]
    /\ posts = [c \in Chats |-> <<>>]
    /\ told = [u \in Updates |-> Untold]
    /\ faults = 0 /\ crashes = 0 /\ lost = [c \in Chats |-> 0]

----------------------------------------------------------------------------
(* Telegram and the poll loop.                                              *)

UserSends ==
    /\ sent < Len(chatOf) /\ sent' = sent + 1
    /\ UNCHANGED <<chatOf, confirmed, offset, up, chain, handler, known, files, server,
                   created, posts, told, limits>>

(* Mutant: the offset is left as it was.                                    *)
NextOffset_Stays(news) == offset

NextOffset(news) == IF news = <<>> THEN offset ELSE Last(news)

(* Those of us that are in S, in their order.                               *)
Among(us, S) == FlattenSeq([k \in DOMAIN us |-> IF us[k] \in S THEN <<us[k]>> ELSE <<>>])

(* getUpdates confirms what is before the offset and returns the rest; the  *)
(* loop dispatches all of it before it polls again.                         *)
Poll ==
    /\ up /\ (confirmed < offset \/ offset < sent)
    /\ confirmed' = IF offset > confirmed THEN offset ELSE confirmed
    /\ LET news == [k \in 1 .. sent - confirmed' |-> confirmed' + k]
       IN  /\ offset' = NextOffset(news)
           /\ chain' = [c \in Chats |->
                          chain[c] \o Among(news, {u \in Updates : chatOf[u] = c})]
           /\ handler' = [u \in Updates |-> IF u \in ToSet(news)
                                            THEN [Idle EXCEPT !.pc = "fresh"]
                                            ELSE handler[u]]
    /\ UNCHANGED <<chatOf, sent, up, known, files, server, created, posts, told, limits>>

(* Mutant: the handlers of a chat are not chained.                          *)
MyTurn_Unchained(u) == u \in ToSet(chain[chatOf[u]])

(* The handlers of a chat run one after the other.                          *)
MyTurn(u) == chain[chatOf[u]] # <<>> /\ Head(chain[chatOf[u]]) = u

At(u, pc) == up /\ MyTurn(u) /\ handler[u].pc = pc

Goto(u, pc) == handler' = [handler EXCEPT ![u].pc = pc]

Fault == faults < MaxFaults /\ faults' = faults + 1

(* All that is left to do is to say that it went wrong.                     *)
Apologize(u) == handler' = [handler EXCEPT ![u] = [Idle EXCEPT !.pc = "sorry"]]

(* The handler returns, having told the chat what it did.                   *)
Return(u, kind, of) ==
    /\ handler' = [handler EXCEPT ![u] = Idle]
    /\ chain' = [chain EXCEPT ![chatOf[u]] = Among(@, Updates \ {u})]
    /\ told' = [told EXCEPT ![u] = [kind |-> kind, of |-> of,
                                   saw |-> handler[u].saw]]

(* save(): the text is made when it is called.                              *)
Save(u, records, then) ==
    handler' = [handler EXCEPT ![u].pc = "open", ![u].then = then, ![u].text = records]

----------------------------------------------------------------------------
(* handleMessage up to the POST.                                            *)

TooOld(u) ==
    /\ At(u, "fresh") /\ Return(u, "stale", 0)
    /\ UNCHANGED <<telegram, offset, up, known, files, server, created, posts, limits>>

HasSession(u) ==
    /\ At(u, "fresh") /\ known[chatOf[u]] # 0 /\ Goto(u, "post")
    /\ UNCHANGED <<telegram, offset, up, chain, known, files, server, created, posts,
                   told, limits>>

(* The first message of a chat awaits createSession, ...                    *)
NeedsSession(u) ==
    /\ At(u, "fresh") /\ known[chatOf[u]] = 0 /\ Goto(u, "create")
    /\ UNCHANGED <<telegram, offset, up, chain, known, files, server, created, posts,
                   told, limits>>

(* ... which succeeds, and setSessionId goes on to save it ...              *)
CreateSession(u) ==
    /\ At(u, "create")
    /\ LET c == chatOf[u]
       IN  /\ created' = [created EXCEPT ![c] = @ + 1]
           /\ known' = [known EXCEPT ![c] = created'[c]]
           /\ server' = [server EXCEPT ![c] = NoSession]
    /\ Save(u, known', "post")
    /\ UNCHANGED <<telegram, offset, up, chain, files, posts, told, limits>>

(* ... or it is refused, or its answer is lost: then there is a session     *)
(* that the chat does not know of.                                          *)
CreateFails(u) ==
    /\ At(u, "create") /\ Fault /\ Apologize(u)
    /\ LET c == chatOf[u]
       IN  \/ UNCHANGED <<created, lost, server>>
           \/ /\ created' = [created EXCEPT ![c] = @ + 1]
              /\ lost' = [lost EXCEPT ![c] = @ + 1]
              /\ server' = [server EXCEPT ![c] = NoSession]
    /\ UNCHANGED <<telegram, offset, up, chain, known, files, posts, told, crashes>>

(* POST .../events, as the router takes it.                                 *)
Accepted(u) ==
    LET c == chatOf[u]
    IN  /\ server' = [server EXCEPT ![c].turns = Append(@, u),
                                    ![c].status = IF server[c].turns = <<>>
                                                  THEN "starting" ELSE @]
        /\ posts' = [posts EXCEPT ![c] = Append(@, u)]

Post(u) ==
    /\ At(u, "post") /\ Accepted(u) /\ Goto(u, "wait")
    /\ UNCHANGED <<telegram, offset, up, chain, known, files, created, told, limits>>

(* Mutant: a POST that failed is not reported.                              *)
PostFails_Silent(u) ==
    /\ At(u, "post") /\ Fault /\ Return(u, "none", 0)
    /\ UNCHANGED <<telegram, offset, up, known, files, server, created, posts, crashes,
                   lost>>

(* It is refused, or its answer is lost.                                    *)
PostFails(u) ==
    /\ At(u, "post") /\ Fault /\ Apologize(u)
    /\ Accepted(u) \/ UNCHANGED <<server, posts>>
    /\ UNCHANGED <<telegram, offset, up, chain, known, files, created, told, crashes, lost>>

----------------------------------------------------------------------------
(* waitForIdle, the reply and the end.                                      *)

(* Whatever is not "running" ends the wait.                                 *)
WaitEnds(u) ==
    /\ At(u, "wait")
    /\ LET status == server[chatOf[u]].status
       IN  /\ status # "running"
           /\ handler' = [handler EXCEPT ![u].saw = status,
                                         ![u].pc = IF status = "failed" THEN "reply"
                                                   ELSE "list"]
    /\ UNCHANGED <<telegram, offset, up, chain, known, files, server, created, posts,
                   told, limits>>

(* Mutant: the wait has no deadline.                                        *)
WaitTimesOut_Never(u) == FALSE /\ UNCHANGED adapterVars

WaitTimesOut(u) ==
    /\ At(u, "wait") /\ server[chatOf[u]].status = "running" /\ Apologize(u)
    /\ UNCHANGED <<telegram, offset, up, chain, known, files, server, created, posts,
                   told, limits>>

(* Mutant: the first message is taken instead of the last.                  *)
LastAgentMessage_First(log) == IF log = <<>> THEN 0 ELSE Head(log)

(* The server ignores the cursor, so that the whole log is fresh.           *)
LastAgentMessage(log) == IF log = <<>> THEN 0 ELSE Last(log)

(* The events are read, and touch() goes on to save.                        *)
List(u) ==
    /\ At(u, "list")
    /\ handler' = [handler EXCEPT ![u].reply = LastAgentMessage(server[chatOf[u]].log),
                                  ![u].pc = "open", ![u].then = "reply",
                                  ![u].text = known]
    /\ UNCHANGED <<telegram, offset, up, chain, known, files, server, created, posts,
                   told, limits>>

(* sendMessage of the reply; when a call fails the catch has its say.       *)
Reply(u) ==
    /\ At(u, "reply") /\ Return(u, "reply", handler[u].reply)
    /\ UNCHANGED <<telegram, offset, up, known, files, server, created, posts, limits>>

ReplyFails(u) ==
    /\ At(u, "list") \/ At(u, "reply")
    /\ Fault /\ Apologize(u)
    /\ UNCHANGED <<telegram, offset, up, chain, known, files, server, created, posts,
                   told, crashes, lost>>

Sorry(u) ==
    /\ At(u, "sorry") /\ Return(u, "sorry", 0)
    /\ UNCHANGED <<telegram, offset, up, known, files, server, created, posts, limits>>

----------------------------------------------------------------------------
(* The storage.  A descriptor follows its file: "tmp", "disk" once that was *)
(* renamed, "gone" once it was replaced.                                    *)

OpenTmp(u) ==
    /\ At(u, "open") /\ tmp' = {File(NoRecords, 0)}
    /\ handler' = [handler EXCEPT ![u].pc = "write", ![u].fd = "tmp"]
    /\ UNCHANGED <<telegram, offset, up, chain, known, disk, server, created, posts,
                   told, limits>>

(* A shorter text over a longer one leaves the longer one's tail.           *)
Over(file, text) ==
    {File(text, IF f.len > Size(text) THEN f.len ELSE Size(text)) : f \in file}

WriteTmp(u) ==
    /\ At(u, "write") /\ Goto(u, "rename")
    /\ tmp' = IF handler[u].fd = "tmp" THEN Over(tmp, handler[u].text) ELSE tmp
    /\ disk' = IF handler[u].fd = "disk" THEN Over(disk, handler[u].text) ELSE disk
    /\ UNCHANGED <<telegram, offset, up, chain, known, server, created, posts, told, limits>>

Follow(fd) == CASE fd = "tmp" -> "disk" [] fd = "disk" -> "gone" [] OTHER -> fd

RenameTmp(u) ==
    /\ At(u, "rename") /\ tmp # {}
    /\ disk' = tmp /\ tmp' = {}
    /\ handler' = [v \in Updates |->
                      IF v = u THEN [handler[u] EXCEPT !.pc = handler[u].then, !.then = "idle",
                                                       !.fd = "none", !.text = NoRecords]
                      ELSE [handler[v] EXCEPT !.fd = Follow(handler[v].fd)]]
    /\ UNCHANGED <<telegram, offset, up, chain, known, server, created, posts, told, limits>>

(* ENOENT: another handler renamed the file.                                *)
RenameFails(u) ==
    /\ At(u, "rename") /\ tmp = {}
    /\ Apologize(u)
    /\ UNCHANGED <<telegram, offset, up, chain, known, files, server, created, posts,
                   told, limits>>

----------------------------------------------------------------------------
(* The sessions (external), the crash and the restart.                      *)

ContainerReady(c) ==
    /\ server[c].status = "starting"
    /\ server' = [server EXCEPT ![c].status = "running"]
    /\ UNCHANGED <<telegram, offset, up, chain, handler, known, files, created, posts,
                   told, limits>>

(* A turn ends, with or without a message.                                  *)
TurnEnds(c) ==
    /\ server[c].status = "running"
    /\ \E log \in {server[c].log, Append(server[c].log, Head(server[c].turns))} :
          server' = [server EXCEPT
                        ![c] = [status |-> IF Len(@.turns) = 1 THEN "idle" ELSE "running",
                                turns |-> Tail(@.turns), log |-> log]]
    /\ UNCHANGED <<telegram, offset, up, chain, handler, known, files, created, posts,
                   told, limits>>

TurnFails(c) ==
    /\ server[c].turns # <<>> /\ Fault
    /\ server' = [server EXCEPT ![c].status = "failed", ![c].turns = <<>>]
    /\ UNCHANGED <<telegram, offset, up, chain, handler, known, files, created, posts,
                   told, crashes, lost>>

Dies ==
    /\ up /\ up' = FALSE
    /\ Fault /\ crashes' = crashes + 1
    /\ offset' = 0 /\ known' = NoRecords
    /\ chain' = [c \in Chats |-> <<>>] /\ handler' = [u \in Updates |-> Idle]
    /\ posts' = [c \in Chats |-> <<>>] /\ told' = [u \in Updates |-> Untold]
    /\ UNCHANGED <<telegram, files, server, created, lost>>

(* The apology cannot be sent either: the handler rejects, and nothing      *)
(* handles what finally() derives from it.                                  *)
SorryFails(u) == At(u, "sorry") /\ Dies

Kill == Killed /\ Dies

(* load() throws on a file that does not parse, and main() exits.           *)
Restart ==
    /\ ~up /\ \A file \in disk : Whole(file)
    /\ up' = TRUE
    /\ known' = IF disk = {} THEN NoRecords ELSE (CHOOSE file \in disk : TRUE).records
    /\ UNCHANGED <<telegram, offset, chain, handler, files, server, created, posts,
                   told, limits>>

----------------------------------------------------------------------------
Handle(u) ==
    \/ TooOld(u) \/ HasSession(u)
    \/ NeedsSession(u) \/ CreateSession(u) \/ CreateFails(u)
    \/ Post(u) \/ PostFails(u) \/ WaitEnds(u) \/ WaitTimesOut(u) \/ List(u)
    \/ Reply(u) \/ ReplyFails(u) \/ Sorry(u)
    \/ OpenTmp(u) \/ WriteTmp(u) \/ RenameTmp(u) \/ RenameFails(u)

TelegramNext ==
    \/ UserSends \/ Poll \/ Kill \/ Restart
    \/ \E u \in Updates : Handle(u) \/ SorryFails(u)
    \/ \E c \in Chats : ContainerReady(c) \/ TurnEnds(c) \/ TurnFails(c)

----------------------------------------------------------------------------
(* The adapter's own steps: Telegram answers, calls return or time out, and *)
(* Docker restarts what died.  Users, turns and failures are owed nothing.  *)
AdapterStep == Poll \/ Restart \/ \E u \in Updates : Handle(u)

----------------------------------------------------------------------------
(* Properties.                                                              *)

(* What a chat posts in one life of the adapter are its updates, in the     *)
(* order Telegram has them and each at most once: the offset and the        *)
(* chain.  (After a crash Telegram may hand out the last batch again.)      *)
PostedInOrder ==
    \A c \in Chats : \A i, j \in DOMAIN posts[c] : i < j => posts[c][i] < posts[c][j]

(* A chat never gets a second session while its first message is still      *)
(* creating one, and none while its mapping is remembered: one per life and *)
(* per create whose answer was lost.                                        *)
OneSessionPerLife == \A c \in Chats : created[c] <= 1 + crashes + lost[c]

(* A handler that saw the session at rest replies with the answer of its    *)
(* own turn, if that turn wrote one (and is not the replay of another).     *)
RestReplyIsOwn ==
    crashes = 0 => \A u \in Updates :
        told[u].saw = "idle" /\ told[u].kind = "reply"
            /\ u \in ToSet(server[chatOf[u]].log) =>
        told[u].of = u

(* A chat is one conversation: its messages in order, in one session, with  *)
(* their answers.                                                           *)
ChainInv == TelegramTypeOK /\ PostedInOrder /\ OneSessionPerLife /\ RestReplyIsOwn

(* No update is dropped without a word, except one that is too old.         *)
NobodyIgnored ==
    [][\A u \in Updates :
          handler[u].pc # "idle" /\ handler'[u].pc = "idle" /\ up' =>
          told'[u].kind # "none"]_adapterVars

(* Every update is taken and handled to its end, however long its turn.     *)
ChainDrains ==
    []<>(up => confirmed = sent /\ \A c \in Chats : chain[c] = <<>>)

(* Whatever fails, an update is handled to its end, and its chat hears of   *)
(* it.                                                                      *)
UpdatesSettle == ChainDrains /\ NobodyIgnored

(* "once a batch is dispatched [...] a crashed adapter will replay the last *)
(* batch": what a crash interrupts is still to be handed out.               *)
InterruptedIsReplayed ==
    [][up /\ ~up' => \A u \in Updates : handler[u].pc # "idle" => u > confirmed]_adapterVars

(* "written atomically (tmp + rename) on every mutation": whatever is under *)
(* the storage's name can be loaded.                                        *)
DiskWhole == \A file \in disk : Whole(file)

(* A reply is the answer of the turn it is sent for.                        *)
OwnReply == \A u \in Updates : told[u].kind = "reply" => told[u].of \in {0, u}

(* One session per life, lost answers or not.                               *)
OneConversation == \A c \in Chats : created[c] <= 1 + crashes

(* "previous turn's failure is that turn's problem, not this one's".        *)
FailureIsOwn == up
=============================================================================
