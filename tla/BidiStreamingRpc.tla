------------------------- MODULE BidiStreamingRpc -------------------------
(***************************************************************************)
(* The client end of a bidirectional gRPC stream (grpc/                    *)
(* bidi_streaming_rpc.hpp), as the KV client of spec 4.1 uses it for one  *)
(* remote transaction: request_and_read opens the call and reads the      *)
(* first reply, write_and_read sends one request and reads its reply,     *)
(* writes_done_and_finish closes the call.  Each is a composed operation  *)
(* (boost::asio::async_compose) over agrpc operations whose completions   *)
(* (ok or not) come back from the gRPC completion queue.  A failed step   *)
(* chains into the private finish operation.                              *)
(*                                                                         *)
(* The caller (the KV client, not in the repository) and the server are   *)
(* modelled from spec 4.1.  A reply is the number of the server's message *)
(* it carries; 0 is the default-constructed reply_.                        *)
(***************************************************************************)
EXTENDS Naturals

CONSTANTS
    MaxWrites      \* write_and_read calls per transaction

NoEc == "none"          \* an empty boost::system::error_code
StatusError == "error"  \* a non-OK grpc::Status (UNAVAILABLE, UNKNOWN, ...)

VARIABLES
    caller,         \* the KV client: "new", "open", "failed" (an error was
                    \* returned) or "closed"
    call,           \* the public operation in progress, or "idle"
    pending,        \* the agrpc operation it waits for, or "none"
    reader_writer_, \* reader_writer_ is set
    status_,        \* status_: "none" (empty), "ok" or StatusError
    reply_,         \* reply_: the number of the message last read into it
    got,            \* the message the current operation's read received
    server,         \* the call's end: "open", or the status the server
                    \* finished it with ("ok", StatusError)
    owed,           \* replies the server owes for requests it received
    sent,           \* messages the server has sent
    finishes,       \* agrpc::finish calls made on the call
    writes,         \* write_and_read calls made
    finish_failed,  \* some agrpc::finish on the call completed not ok
    last            \* the last completed operation: its name, error code,
                    \* delivered reply and the reply its read received

vars == <<caller, call, pending, reader_writer_, status_, reply_, got, server,
          owed, sent, finishes, writes, last, finish_failed>>
stream == <<server, owed, sent>>

ReadCalls == {"request_and_read", "write_and_read"}

Init ==
    /\ caller = "new"
    /\ call = "idle"
    /\ pending = "none"
    /\ reader_writer_ = FALSE
    /\ status_ = "none"
    /\ reply_ = 0
    /\ got = 0
    /\ server = "open"
    /\ owed = 0 /\ sent = 0
    /\ finishes = 0
    /\ writes = 0
    /\ finish_failed = FALSE
    /\ last = [op |-> "none", ec |-> NoEc, reply |-> 0, got |-> 0]

-----------------------------------------------------------------------------
(* The composed operations' steps.                                         *)

\* op.complete(ec, reply_) / op.complete(ec): the public operation `op` returns
\* `reply` to the caller (its read received `g`), who goes on per spec 4.1 (an error ends the use of the
\* transaction but its close).
Complete(op, ec, reply, g) ==
    /\ call' = "idle"
    /\ pending' = "none"
    /\ last' = [op |-> op, ec |-> ec, reply |-> reply, got |-> g]
    /\ caller' = CASE op = "writes_done_and_finish" -> "closed"
                   [] ec = NoEc -> "open"
                   [] OTHER -> "failed"

\* Finish::operator()(op): status_ is emplaced (an OK grpc::Status) and
\* agrpc::finish is started.
FinishStart ==
    /\ status_' = "ok"
    /\ finishes' = finishes + 1
    /\ pending' = "finish"

\* The error code of a finished call: empty for an OK status.
StatusEc(s) == IF s = "ok" THEN NoEc ELSE s

-----------------------------------------------------------------------------
(* The caller.                                                             *)

\* request_and_read: RequestAndRead::operator()(op) starts agrpc::request,
\* which creates reader_writer_.
RequestAndRead ==
    /\ caller = "new" /\ call = "idle"
    /\ call' = "request_and_read"
    /\ reader_writer_' = TRUE
    /\ pending' = "request"
    /\ got' = 0
    /\ UNCHANGED <<caller, status_, reply_, stream, finishes, writes, last, finish_failed>>

\* write_and_read: WriteAndRead::operator()(op) writes the request, or
\* completes with INTERNAL before agrpc::request.
WriteAndRead ==
    /\ caller = "open" /\ call = "idle"
    /\ writes < MaxWrites
    /\ writes' = writes + 1
    /\ got' = 0
    /\ IF reader_writer_
       THEN /\ call' = "write_and_read" /\ pending' = "write"
            /\ UNCHANGED <<caller, last>>
       ELSE Complete("write_and_read", StatusError, reply_, 0)
    /\ UNCHANGED <<reader_writer_, status_, reply_, stream, finishes, finish_failed>>

\* Seeded fault for CallsComplete: the "already finished" branch returns
\* without op.complete.
AlreadyFinishedNoComplete ==
    call' = "writes_done_and_finish" /\ UNCHANGED <<caller, pending, last>>

\* Seeded fault for CloseReportsStatus: the "already finished" branch
\* completes with no error whatever status_ holds.
AlreadyFinishedOk == Complete("writes_done_and_finish", NoEc, reply_, got)

\* The call already finished: op.complete with status_'s error code.
AlreadyFinished == Complete("writes_done_and_finish", StatusEc(status_), reply_, got)

\* writes_done_and_finish: WritesDoneAndFinish::operator()(op) answers from
\* status_ if the call is already finished, else starts writes_done (its
\* INTERNAL branch needs a close before request_and_read, which the KV
\* client never makes).
WritesDoneAndFinish ==
    /\ caller \in {"open", "failed"} /\ call = "idle"
    /\ IF status_ # "none"
       THEN AlreadyFinished
       ELSE /\ call' = "writes_done_and_finish"
            /\ pending' = "writes_done"
            /\ UNCHANGED <<caller, last>>
    /\ UNCHANGED <<reader_writer_, status_, reply_, got, stream, finishes, writes, finish_failed>>

-----------------------------------------------------------------------------
(* Completions from the gRPC completion queue.                             *)

\* agrpc::request completes: ReadNext::operator()(op, ok) reads the first
\* reply, or finishes the call if it did not start.
RequestDone ==
    /\ pending = "request"
    /\ \/ /\ server = "open"
          /\ pending' = "read"
          /\ owed' = owed + 1
          /\ UNCHANGED <<server, status_, finishes>>
       \/ /\ server' = StatusError
          /\ FinishStart
          /\ UNCHANGED owed
    /\ UNCHANGED <<caller, call, reader_writer_, reply_, got, sent, writes, last, finish_failed>>

\* agrpc::write completes: ok while the server has not ended the call;
\* ReadNext::operator()(op, ok) then reads, else finishes.
WriteDone ==
    /\ pending = "write"
    /\ IF server = "open"
       THEN /\ pending' = "read"
            /\ owed' = owed + 1
            /\ UNCHANGED <<status_, finishes>>
       ELSE /\ FinishStart
            /\ UNCHANGED owed
    /\ UNCHANGED <<caller, call, reader_writer_, reply_, got, server, sent, writes, last, finish_failed>>

\* agrpc::read completes with the next message, or not ok once the server
\* has ended the call and every message is read;
\* ReadNext::operator()(op, ok, ReadDoneTag) returns reply_ or finishes.
ReadDone ==
    /\ pending = "read"
    /\ \/ /\ reply_ < sent
          /\ reply_' = reply_ + 1
          /\ got' = reply_ + 1
          /\ Complete(call, NoEc, reply_ + 1, reply_ + 1)
          /\ UNCHANGED <<status_, finishes>>
       \/ /\ reply_ = sent
          /\ server # "open"
          /\ FinishStart
          /\ UNCHANGED <<caller, call, reply_, got, last>>
    /\ UNCHANGED <<reader_writer_, stream, writes, finish_failed>>

\* agrpc::writes_done completes; WritesDoneAndFinish::operator()(op, ok)
\* finishes whatever ok is.
WritesDoneDone ==
    /\ pending = "writes_done"
    /\ FinishStart
    /\ UNCHANGED <<caller, call, reader_writer_, reply_, got, stream, writes, last, finish_failed>>

\* agrpc::finish completes once the server has ended the call:
\* Finish::operator()(op, ok) takes the server's status, UNKNOWN if not ok,
\* and completes; a read operation's ReadNext::operator()(op, ec) passes the
\* error code on with reply_.
FinishDone ==
    /\ pending = "finish"
    /\ server # "open"
    /\ \E ok \in BOOLEAN :
          /\ status_' = IF ok THEN server ELSE StatusError
          /\ finish_failed' = (finish_failed \/ ~ok)
          /\ Complete(call, StatusEc(status_'), reply_, got)
    /\ UNCHANGED <<reader_writer_, reply_, got, stream, finishes, writes>>

-----------------------------------------------------------------------------
(* The server.                                                             *)

\* The server answers a request it received.
ServerReply ==
    /\ server = "open" /\ owed > 0
    /\ owed' = owed - 1
    /\ sent' = sent + 1
    /\ UNCHANGED <<caller, call, pending, reader_writer_, status_, reply_, got,
                   server, finishes, writes, last, finish_failed>>

\* The server ends the call with an OK or an error status at any time
\* after it started (a transport failure ends it with an error); it ends it
\* with OK once the client has half-closed.
ServerEnd(s) ==
    /\ server = "open" /\ reader_writer_
    /\ server' = s
    /\ UNCHANGED <<caller, call, pending, reader_writer_, status_, reply_, got,
                   owed, sent, finishes, writes, last, finish_failed>>

HalfClosed == finishes > 0 /\ call = "writes_done_and_finish"

Next ==
    \/ RequestAndRead \/ WriteAndRead \/ WritesDoneAndFinish
    \/ RequestDone \/ WriteDone \/ ReadDone \/ WritesDoneDone \/ FinishDone
    \/ ServerReply
    \/ ServerEnd("ok") \/ ServerEnd(StatusError)

\* The completion queue delivers every started operation's completion; the
\* server answers every request and ends the call once it is half-closed.
Fairness ==
    /\ WF_vars(RequestDone) /\ WF_vars(WriteDone) /\ WF_vars(ReadDone)
    /\ WF_vars(WritesDoneDone) /\ WF_vars(FinishDone)
    /\ WF_vars(ServerReply)
    /\ WF_vars(HalfClosed /\ ServerEnd("ok"))

Spec == Init /\ [][Next]_vars /\ Fairness

-----------------------------------------------------------------------------
(* Properties.                                                             *)

\* Every public operation returns to its caller: request_and_read,
\* write_and_read and writes_done_and_finish all end in op.complete,
\* whatever the completions' ok flags and however the server ends the call.
CallsComplete == \A c \in ReadCalls \cup {"writes_done_and_finish"} :
                    (call = c) ~> (call = "idle")

\* writes_done_and_finish returns no error exactly when the server ended the
\* call with an OK status and no agrpc::finish on it failed, whether it
\* finishes the call itself or answers from status_ of an earlier finish
\* (which Finish's initiation has reset to OK).
CloseReportsStatus ==
    last.op = "writes_done_and_finish" =>
        ((last.ec = NoEc) <=> (server = "ok" /\ ~finish_failed))

\* A request_and_read or write_and_read that returns no error returns the
\* reply its own read received.
ReadReplyFresh ==
    last.op \in ReadCalls /\ last.ec = NoEc => last.got # 0 /\ last.reply = last.got

=============================================================================
