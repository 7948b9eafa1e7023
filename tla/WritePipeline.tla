---------------------------- MODULE WritePipeline ----------------------------
(***************************************************************************)
(* How a write that nobody awaits (DataService.swift sets, updates and     *)
(* deletes documents and goes on) gets to the server: the write path of    *)
(* the Firestore client the application is built with                      *)
(* (src/LidoraClient/Pods/FirebaseFirestore/Firestore/core/src).           *)
(*                                                                         *)
(*   SyncEngine    takes the mutation, keeps the caller's callback         *)
(*   LocalStore    persists it as a batch of the user's mutation queue     *)
(*   RemoteStore   keeps up to kMaxPendingWrites batches in a pipeline and *)
(*                 sends them over the write stream                        *)
(*   WriteStream   handshake first; a response belongs to the oldest batch *)
(*   Stream        starting, open, backing off after an error              *)
(*                                                                         *)
(* All of it runs on one worker queue: an action is one task of it.  The   *)
(* network and the server are external: a broken connection drops what it  *)
(* carries, the server answers the requests of a connection in their order *)
(* and ends the connection when it refuses one.  A mutation is the number  *)
(* of the write, in the order the application made them.                   *)
(***************************************************************************)
EXTENDS Naturals, Sequences

CONSTANTS User,
          kMaxPendingWrites,
          MaxWrites,    \* bound: writes the application makes
          MaxFaults     \* bound: disturbances

ASSUME PipelineSize == kMaxPendingWrites \in Nat \ {0}
ASSUME WriteBound == MaxWrites \in Nat
ASSUME FaultBound == MaxFaults \in Nat

VARIABLES
    queue,       \* persisted: [User -> the batches of the user's queue, by id]
    user,        \* SyncEngine.current_user_
    nextId,      \* mutation queue: next_batch_id_
    callbacks,   \* SyncEngine.mutation_callbacks_
    enabled,     \* RemoteStore.is_network_enabled_
    pipeline,    \* RemoteStore.write_pipeline_
    stream,      \* Stream.state_
    handshake,   \* WriteStream.handshake_complete_, and where the handshake is before
    idle,        \* the idleness timer runs
    tokens,      \* requests for a token under way: of "this" start, of an "earlier" one
    sent,        \* connection: requests the server has not answered
    replies,     \* connection: responses the client has not read
    refusal,     \* connection: the server refused the head of sent and ends it
    issued,      \* the users of the writes made so far, in their order
    applied,     \* writes the server applied
    refused,     \* writes the server refused
    server,      \* [User -> the write of the user it applied last, or 0]
    reported,    \* [Write -> what the callback of the write was given]
    faults

network == <<enabled, stream, handshake, idle, tokens>>
wire == <<sent, replies, refusal>>
outside == <<applied, refused, server>>
vars == <<queue, user, nextId, callbacks, pipeline, network, wire, issued, outside,
          reported, faults>>

Write == 1..MaxWrites
Batch == [id : Nat, write : Write]
Callback == [user : User, id : Nat, write : Write]
Outcome == {"nothing", "success", "error"}
StreamState == {"initial", "starting", "open", "backoff", "error"}

\* Stream::IsStarted
IsStarted(s) == s \in {"starting", "open", "backoff"}

Smaller(m, n) == IF m < n THEN m ELSE n

Disturb == faults < MaxFaults /\ faults' = faults + 1

-----------------------------------------------------------------------------
(* The mutation queue: the rows of a user, sorted by their id.              *)

\* A slip: ids start anew with every user.
NextIdFromOne(q) == 1

\* LoadNextBatchIdFromDb: one more than the largest id of any user.
LoadNextBatchId(q) ==
    LET ids == {0} \cup UNION {{q[u][i].id : i \in 1..Len(q[u])} : u \in User}
    IN  1 + CHOOSE n \in ids : \A m \in ids : m <= n

\* NextMutationBatchAfterBatchId: where the first batch with a larger id is.
PositionAfter(q, id) ==
    CHOOSE i \in 1..(Len(q) + 1) :
        /\ \A j \in 1..(i - 1) : q[j].id <= id
        /\ i <= Len(q) => q[i].id > id

HasBatch(q, id) == \E i \in 1..Len(q) : q[i].id = id

\* A slip: the batch stays.
KeepBatch(q, id) == q

\* RemoveMutationBatch
WithoutBatch(q, id) ==
    LET at == CHOOSE i \in 1..Len(q) : q[i].id = id
    IN  [i \in 1..(Len(q) - 1) |-> IF i < at THEN q[i] ELSE q[i + 1]]

-----------------------------------------------------------------------------
(* RemoteStore::FillWritePipeline.                                          *)

\* The batches that join pipeline p: those after its last one, up to its size.
MoreBatches(q, p) ==
    LET last == IF p = <<>> THEN 0 ELSE p[Len(p)].id
        from == PositionAfter(q, last)
    IN  SubSeq(q, from, Smaller(Len(q), from + kMaxPendingWrites - Len(p) - 1))

\* A slip: what joins is sent whether the handshake is complete or not.
FillUnshaken(q, p) ==
    LET more == IF enabled THEN MoreBatches(q, p) ELSE <<>>
    IN  /\ pipeline' = p \o more
        /\ sent' = sent \o more
        /\ idle' = (more = <<>> /\ (idle \/ (enabled /\ p = <<>>)))
        /\ UNCHANGED <<stream, tokens>>

\* With an open stream: what joins is sent at once, after the handshake; with
\* nothing left to do the idle timer starts.
FillOpenStream(q, p) ==
    LET more == IF enabled THEN MoreBatches(q, p) ELSE <<>>
        send == handshake = "complete" /\ more # <<>>
    IN  /\ pipeline' = p \o more
        /\ sent' = IF send THEN sent \o more ELSE sent
        /\ idle' = IF send THEN FALSE ELSE (idle \/ (enabled /\ p \o more = <<>>))
        /\ UNCHANGED <<stream, tokens>>

\* With a stream in another state s, where the requests for tokens are pending:
\* it is started when there is something to send (Stream::Start backs off first
\* after an error).
FillClosedStream(q, p, s, pending, on) ==
    LET all == IF on THEN p \o MoreBatches(q, p) ELSE p
        start == on /\ ~IsStarted(s) /\ all # <<>>
    IN  /\ pipeline' = all
        /\ stream' = IF start THEN (IF s = "error" THEN "backoff" ELSE "starting") ELSE s
        /\ tokens' = IF start /\ s # "error" THEN pending \cup {"this"} ELSE pending

-----------------------------------------------------------------------------
(* Stream::Close.                                                           *)

\* A slip: close_count_ stays.
StillValid == tokens

\* close_count_ is incremented: answers to requests of this start are void.
Voided == IF tokens = {} THEN {} ELSE {"earlier"}

\* Timers are cancelled, the connection is dropped with all it carries.
DropConnection ==
    /\ handshake' = "none"
    /\ idle' = FALSE
    /\ sent' = <<>>
    /\ replies' = <<>>
    /\ refusal' = FALSE

\* SyncEngine::NotifyUser: the callback of the batch, if this process has one.
NotifyUser(id, outcome) ==
    LET told == {c \in callbacks : c.user = user /\ c.id = id}
    IN  /\ callbacks' = callbacks \ told
        /\ reported' = [w \in Write |->
               IF \E c \in told : c.write = w THEN outcome ELSE reported[w]]

\* RemoteStore::HandleWriteError, permanent: the oldest batch is given up and the
\* stream is started again without delay.
HandleWriteError ==
    LET batch == Head(pipeline)
        q == WithoutBatch(queue[user], batch.id)
    IN  /\ queue' = [queue EXCEPT ![user] = q]
        /\ NotifyUser(batch.id, "error")
        /\ FillClosedStream(q, Tail(pipeline), "initial", Voided, enabled)

\* Slips: a batch is given up after any error; nothing starts the stream again.
GiveUp == IF pipeline # <<>> THEN HandleWriteError ELSE
    /\ stream' = "error"
    /\ tokens' = Voided
    /\ UNCHANGED <<queue, callbacks, reported, pipeline>>

StayClosed ==
    /\ stream' = "error"
    /\ tokens' = Voided
    /\ UNCHANGED <<queue, callbacks, reported, pipeline>>

\* OnWriteStreamClose after an error that gives up no batch: backoff, when
\* something is waiting.
RetryLater ==
    LET start == enabled /\ pipeline # <<>>
    IN  /\ stream' = IF start THEN "backoff" ELSE "error"
        /\ tokens' = Voided
        /\ UNCHANGED <<queue, callbacks, reported, pipeline>>

-----------------------------------------------------------------------------
(* The application.                                                         *)

\* SyncEngine::WriteMutations
WriteMutations ==
    /\ Len(issued) < MaxWrites
    /\ LET w == Len(issued) + 1
           q == Append(queue[user], [id |-> nextId, write |-> w])
       IN  /\ queue' = [queue EXCEPT ![user] = q]
           /\ nextId' = nextId + 1
           /\ issued' = Append(issued, user)
           /\ callbacks' = IF \E c \in callbacks : c.user = user /\ c.id = nextId
                           THEN callbacks   \* insert() keeps what is there
                           ELSE callbacks \cup {[user |-> user, id |-> nextId, write |-> w]}
           /\ IF stream = "open"
              THEN FillOpenStream(q, pipeline)
              ELSE /\ FillClosedStream(q, pipeline, stream, tokens, enabled)
                   /\ UNCHANGED <<sent, idle>>
    /\ UNCHANGED <<user, enabled, handshake, replies, refusal, outside, reported, faults>>

-----------------------------------------------------------------------------
(* The stream.                                                              *)

\* ResumeStartWithCredentials; an answer to an earlier start is dropped.  The
\* stream opens and the handshake is written.
TokenArrives(t) ==
    /\ t \in tokens
    /\ tokens' = tokens \ {t}
    /\ IF t = "this"
       THEN stream' = "open" /\ handshake' = "asked"
       ELSE UNCHANGED <<stream, handshake>>
    /\ UNCHANGED <<queue, user, nextId, callbacks, pipeline, enabled, idle, wire, issued,
                   outside, reported, faults>>

\* There is no token: the start ends with an error.
TokenFails ==
    /\ "this" \in tokens
    /\ Disturb
    /\ RetryLater
    /\ DropConnection
    /\ UNCHANGED <<user, nextId, enabled, issued, outside>>

\* OnWriteStreamHandshakeComplete: all of the pipeline is sent.
HandshakeCompletes ==
    /\ handshake = "answered"
    /\ handshake' = "complete"
    /\ sent' = sent \o pipeline
    /\ idle' = (idle /\ pipeline = <<>>)
    /\ UNCHANGED <<queue, user, nextId, callbacks, pipeline, enabled, stream, tokens,
                   replies, refusal, issued, outside, reported, faults>>

\* OnWriteStreamMutationResult: the response is taken for the oldest batch; its
\* caller is told, the batch leaves the queue, another one may join.
MutationResult ==
    /\ replies # <<>>
    /\ LET batch == Head(pipeline)
           q == WithoutBatch(queue[user], batch.id)
       IN  /\ NotifyUser(batch.id, "success")
           /\ queue' = [queue EXCEPT ![user] = q]
           /\ FillOpenStream(q, Tail(pipeline))
    /\ replies' = Tail(replies)
    /\ UNCHANGED <<user, nextId, enabled, handshake, refusal, issued, outside, faults>>

\* The status of a refused request: after the responses before it, or ahead of
\* them when a write fails first (GrpcStream::OnOperationFailed).
Refused ==
    /\ refusal
    /\ replies = <<>> \/ Len(sent) > 1
    /\ HandleWriteError
    /\ DropConnection
    /\ UNCHANGED <<user, nextId, enabled, issued, outside, faults>>

\* The connection breaks: an error that is not permanent, or one before the handshake.
Broken ==
    /\ stream = "open"
    /\ Disturb
    /\ RetryLater
    /\ DropConnection
    /\ UNCHANGED <<user, nextId, enabled, issued, outside>>

\* Stream::BackoffAndTryRestarting, the delay is over.
BackoffElapsed ==
    /\ stream = "backoff"
    /\ stream' = "starting"
    /\ tokens' = tokens \cup {"this"}
    /\ UNCHANGED <<queue, user, nextId, callbacks, pipeline, enabled, handshake, idle, wire,
                   issued, outside, reported, faults>>

\* The idleness timer: Stream::Stop.
IdleTimeout ==
    /\ idle
    /\ stream' = "initial"
    /\ tokens' = Voided
    /\ DropConnection
    /\ UNCHANGED <<queue, user, nextId, callbacks, pipeline, enabled, issued, outside,
                   reported, faults>>

-----------------------------------------------------------------------------
(* The network, the user and the process.                                   *)

\* A slip: the pipeline of before goes on.
KeepPipeline(q) ==
    /\ FillClosedStream(q, pipeline, "initial", Voided, TRUE)
    /\ DropConnection

\* RemoteStore::RestartNetwork with queue q: stop, forget the pipeline, fill it anew.
RestartNetwork(q) ==
    /\ FillClosedStream(q, <<>>, "initial", Voided, TRUE)
    /\ DropConnection

\* The callback of RemoteStore::Start: the network is reachable again.
ConnectivityChanges ==
    /\ enabled
    /\ Disturb
    /\ RestartNetwork(queue[user])
    /\ UNCHANGED <<queue, user, nextId, callbacks, enabled, issued, outside, reported>>

DisableNetwork ==
    /\ enabled
    /\ Disturb
    /\ enabled' = FALSE
    /\ stream' = IF IsStarted(stream) THEN "initial" ELSE stream
    /\ tokens' = Voided
    /\ pipeline' = <<>>
    /\ DropConnection
    /\ UNCHANGED <<queue, user, nextId, callbacks, issued, outside, reported>>

EnableNetwork ==
    /\ ~enabled
    /\ enabled' = TRUE
    /\ FillClosedStream(queue[user], pipeline, stream, tokens, TRUE)
    /\ UNCHANGED <<queue, user, nextId, callbacks, handshake, idle, wire, issued, outside,
                   reported, faults>>

\* SyncEngine::HandleCredentialChange: another user's queue is opened, the streams
\* are restarted.  A new token of the same user restarts them too.
HandleCredentialChange(u) ==
    /\ Disturb
    /\ user' = u
    /\ nextId' = IF u = user THEN nextId ELSE LoadNextBatchId(queue)
    /\ IF enabled
       THEN RestartNetwork(queue[u])
       ELSE UNCHANGED <<pipeline, stream, handshake, idle, tokens, wire>>
    /\ UNCHANGED <<queue, callbacks, enabled, issued, outside, reported>>

\* FirestoreClient::Initialize of the next process, on the persisted queue q.
Initialize(q) ==
    /\ nextId' = LoadNextBatchId(q)
    /\ callbacks' = {}
    /\ enabled' = TRUE
    /\ FillClosedStream(q[user], <<>>, "initial", {}, TRUE)
    /\ DropConnection

\* The process goes and comes back: between tasks; after the callback of a success
\* and before its batch is removed (SyncEngine::HandleSuccessfulWrite); after the
\* refused batch is removed and before the callback (HandleRejectedWrite).
Crash ==
    /\ Disturb
    /\ \/ Initialize(queue) /\ UNCHANGED <<queue, reported>>
       \/ /\ replies # <<>>
          /\ \E c \in callbacks :
                /\ c.user = user /\ c.id = Head(pipeline).id
                /\ reported' = [reported EXCEPT ![c.write] = "success"]
          /\ Initialize(queue)
          /\ UNCHANGED queue
       \/ /\ refusal
          /\ replies = <<>> \/ Len(sent) > 1
          /\ queue' = [queue EXCEPT ![user] = WithoutBatch(@, Head(pipeline).id)]
          /\ Initialize(queue')
          /\ UNCHANGED reported
    /\ UNCHANGED <<user, issued, outside>>

-----------------------------------------------------------------------------
(* The server (external).                                                   *)

AnswerHandshake ==
    /\ handshake = "asked"
    /\ handshake' = "answered"
    /\ UNCHANGED <<queue, user, nextId, callbacks, pipeline, enabled, stream, idle, tokens,
                   wire, issued, outside, reported, faults>>

Apply ==
    /\ sent # <<>> /\ ~refusal
    /\ LET w == Head(sent).write
       IN  /\ applied' = applied \cup {w}
           /\ server' = [server EXCEPT ![issued[w]] = w]
    /\ replies' = Append(replies, Head(sent))
    /\ sent' = Tail(sent)
    /\ UNCHANGED <<queue, user, nextId, callbacks, pipeline, network, refusal, issued,
                   refused, reported, faults>>

Refuse ==
    /\ sent # <<>> /\ ~refusal
    /\ refusal' = TRUE
    /\ refused' = refused \cup {Head(sent).write}
    /\ UNCHANGED <<queue, user, nextId, callbacks, pipeline, network, sent, replies, issued,
                   applied, server, reported, faults>>

-----------------------------------------------------------------------------
Init ==
    /\ queue = [u \in User |-> <<>>]
    /\ user \in User
    /\ nextId = 1
    /\ callbacks = {}
    /\ enabled = TRUE
    /\ pipeline = <<>>
    /\ stream = "initial"
    /\ handshake = "none"
    /\ idle = FALSE
    /\ tokens = {}
    /\ sent = <<>>
    /\ replies = <<>>
    /\ refusal = FALSE
    /\ issued = <<>>
    /\ applied = {}
    /\ refused = {}
    /\ server = [u \in User |-> 0]
    /\ reported = [w \in Write |-> "nothing"]
    /\ faults = 0

Client ==
    \/ \E t \in {"this", "earlier"} : TokenArrives(t)
    \/ HandshakeCompletes
    \/ MutationResult
    \/ Refused
    \/ BackoffElapsed
    \/ EnableNetwork

Server == AnswerHandshake \/ Apply \/ Refuse

Next ==
    \/ WriteMutations
    \/ Client \/ Server
    \/ IdleTimeout
    \/ TokenFails \/ Broken
    \/ ConnectivityChanges \/ DisableNetwork
    \/ \E u \in User : HandleCredentialChange(u)
    \/ Crash

Spec == Init /\ [][Next]_vars

\* The worker queue runs its tasks and the network answers.  Nothing is assumed of
\* the disturbances, which MaxFaults bounds.
FairSpec ==
    /\ Spec
    /\ \A t \in {"this", "earlier"} : WF_vars(TokenArrives(t))
    /\ WF_vars(HandshakeCompletes) /\ WF_vars(MutationResult)
    /\ WF_vars(Refused) /\ WF_vars(BackoffElapsed) /\ WF_vars(EnableNetwork)
    /\ WF_vars(AnswerHandshake) /\ WF_vars(Apply \/ Refuse)

-----------------------------------------------------------------------------
(* Properties.                                                              *)

TypeOK ==
    /\ queue \in [User -> Seq(Batch)]
    /\ user \in User
    /\ nextId \in Nat
    /\ callbacks \subseteq Callback
    /\ enabled \in BOOLEAN
    /\ pipeline \in Seq(Batch)
    /\ stream \in StreamState
    /\ handshake \in {"none", "asked", "answered", "complete"}
    /\ idle \in BOOLEAN
    /\ tokens \subseteq {"this", "earlier"}
    /\ sent \in Seq(Batch)
    /\ replies \in Seq(Batch)
    /\ refusal \in BOOLEAN
    /\ issued \in Seq(User) /\ Len(issued) <= MaxWrites
    /\ applied \subseteq Write
    /\ refused \subseteq Write
    /\ server \in [User -> Nat]
    /\ reported \in [Write -> Outcome]
    /\ faults \in 0..MaxFaults

\* The client asserts, where a task begins, what must hold for it; it dies where it
\* does not.  No order of tasks, timers, answers and disturbances gets there: a token
\* finds its stream starting (stream.cc:130), a response finds a started stream, a
\* batch in the pipeline and its row in the queue (stream.cc:202, remote_store.cc:437,
\* leveldb_mutation_queue.cc:196), the idle timer stops no stream that is still needed
\* (remote_store.cc:456), a refused batch is still in the queue (local_store.cc:233).
AssertionsHold ==
    /\ "this" \in tokens => stream = "starting" /\ handshake = "none"
    /\ replies # <<>> =>
         /\ IsStarted(stream) /\ pipeline # <<>>
         /\ HasBatch(queue[user], Head(pipeline).id)
    /\ refusal => pipeline # <<>> /\ HasBatch(queue[user], Head(pipeline).id)
    /\ idle => IsStarted(stream) /\ pipeline = <<>>
    /\ handshake # "none" => stream = "open"

\* A response carries no id and is taken for the oldest batch (remote_store.cc:435):
\* it always is the response of that batch.
ResponsesMatchPipeline ==
    handshake = "complete" => replies \o sent = pipeline

\* A callback is called with success only for a write the server applied, whatever
\* batch ids were given again after a restart or a change of the user.
SuccessMeansApplied ==
    \A w \in Write : reported[w] = "success" => w \in applied

\* A batch leaves the persisted queue only after the server took or refused it:
\* nothing is lost by breaks, restarts and changes of the user.
NoWriteLost ==
    \A w \in 1..Len(issued) :
        \/ \E i \in 1..Len(queue[issued[w]]) : queue[issued[w]][i].write = w
        \/ w \in applied \cup refused

\* The server meets no write before it has dealt with the earlier ones of the user.
NoGaps ==
    \A w \in applied : \A v \in 1..(w - 1) :
        issued[v] = issued[w] => v \in applied \cup refused

\* A write may be applied again after a break, but never one that is older than a
\* write whose caller was told of its success: setting the primary card is not
\* undone by the write before it.
SuccessIsFinal ==
    [][\A u \in User : server'[u] # server[u] =>
          \A w \in 1..Len(issued) :
              issued[w] = u /\ reported[w] = "success" => server'[u] >= w]_vars

\* The client implements the lines of writes of OrderedWrites: the responses on the
\* wire are the writes of the line this connection has applied.
Lines == INSTANCE OrderedWrites WITH
    pending <- [u \in User |-> [i \in 1..Len(queue[u]) |-> queue[u][i].write]],
    cursor <- Len(replies)
WritesSpec == Lines!Spec

\* When the disturbances are over nothing waits: whatever the stream was doing, what
\* the signed-in user wrote gets to the server.
EverythingIsSent == <>[](enabled /\ queue[user] = <<>>)
=============================================================================
