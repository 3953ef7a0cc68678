----------------------------- MODULE PluginCall -----------------------------
(***************************************************************************)
(* invoke_plugin: a fresh process for every call.  The parent writes the   *)
(* request to the child's stdin, a reader thread collects at most          *)
(* max_output_bytes + 1 of its stdout, the parent polls for the exit with  *)
(* a timeout, joins the reader and checks the answer.  The child does what *)
(* it likes: reads or not, writes, exits, hangs, passes its stdout on.     *)
(***************************************************************************)
EXTENDS Integers

CONSTANTS
  Plugins,      \* [manifest, declared, shares, answer, request]
  PipeCapacity, \* what a pipe holds before a write blocks, in model blocks
  MaxOutput,    \* manifest.max_output_bytes, in model blocks
  MaxWritten    \* bound on what the plugin writes

VARIABLES
  plugin,   \* fixed
  pc,       \* "validate", "write", "poll", "join" or "returned"
  stdin,    \* [sent, taken, open]: blocks written by the parent and read by the child
  child,    \* "none", "running", "ok", "failed" or "reaped"
  status,   \* the exit status once the child has ended
  holders,  \* who holds the write end of stdout
  written,  \* blocks written to stdout
  got,      \* blocks read by the reader thread
  reader,   \* "none", "reading" or "done"
  expired,  \* timeout_ms has passed since the start of the poll loop
  result    \* "none", "ok" or the error

vars == <<plugin, pc, stdin, child, status, holders, written, got, reader, expired, result>>

Init ==
  /\ plugin \in Plugins
  /\ pc = "validate"
  /\ stdin = [sent |-> 0, taken |-> 0, open |-> FALSE]
  /\ child = "none" /\ status = "none" /\ holders = {}
  /\ written = 0 /\ got = 0 /\ reader = "none" /\ expired = FALSE /\ result = "none"

Return(r) == pc' = "returned" /\ result' = r

(* PluginManifest::validate and supports(kind, name), then the spawn. *)
Start ==
  /\ pc = "validate"
  /\ \/ /\ plugin.manifest # "valid" \/ ~plugin.declared
        /\ Return("refused")
        /\ UNCHANGED <<stdin, child, holders>>
     \/ /\ plugin.manifest = "valid" /\ plugin.declared
        /\ Return("not started")
        /\ UNCHANGED <<stdin, child, holders>>
     \/ /\ plugin.manifest = "valid" /\ plugin.declared
        /\ pc' = "write"
        /\ child' = "running"
        /\ stdin' = [stdin EXCEPT !.open = TRUE]
        /\ holders' = {"child"} \cup (IF plugin.shares THEN {"grandchild"} ELSE {})
        /\ UNCHANGED result
  /\ UNCHANGED <<plugin, status, written, got, reader, expired>>

(* Write the request: block by block, waiting for room in the pipe; a write *)
(* to a closed pipe ends the call; a complete request starts the reader.    *)
WriteRequest ==
  /\ pc = "write"
  /\ \/ /\ stdin.open /\ stdin.sent < plugin.request /\ stdin.sent - stdin.taken < PipeCapacity
        /\ stdin' = [stdin EXCEPT !.sent = @ + 1]
        /\ UNCHANGED <<pc, reader, result>>
     \/ /\ ~stdin.open /\ stdin.sent < plugin.request
        /\ Return("write failed")
        /\ UNCHANGED <<stdin, reader>>
     \/ /\ stdin.sent = plugin.request
        /\ pc' = "poll" /\ reader' = "reading"
        /\ UNCHANGED <<stdin, result>>
  /\ UNCHANGED <<plugin, child, status, holders, written, got, expired>>

(* The child consumes its input, or closes it. *)
ChildReads ==
  /\ child = "running" /\ stdin.open
  /\ \/ stdin.taken < stdin.sent /\ stdin' = [stdin EXCEPT !.taken = @ + 1]
     \/ stdin' = [stdin EXCEPT !.open = FALSE]
  /\ UNCHANGED <<plugin, pc, child, status, holders, written, got, reader, expired, result>>

(* A holder of stdout writes while the pipe has room and is read. *)
ChildWrites ==
  /\ holders # {} /\ reader # "done"
  /\ written < MaxWritten /\ written - got < PipeCapacity
  /\ written' = written + 1
  /\ UNCHANGED <<plugin, pc, stdin, child, status, holders, got, reader, expired, result>>

ChildExits ==
  /\ child = "running"
  /\ \E s \in {"ok", "failed"} : child' = s /\ status' = s
  /\ stdin' = [stdin EXCEPT !.open = FALSE]
  /\ holders' = holders \ {"child"}
  /\ UNCHANGED <<plugin, pc, written, got, reader, expired, result>>

GrandchildExits ==
  /\ "grandchild" \in holders
  /\ holders' = holders \ {"grandchild"}
  /\ UNCHANGED <<plugin, pc, stdin, child, status, written, got, reader, expired, result>>

(* stdout.take(limit + 1).read_to_end(): up to the limit or end of file. *)
Read ==
  /\ reader = "reading"
  /\ \/ got < written /\ got < MaxOutput + 1 /\ got' = got + 1 /\ UNCHANGED reader
     \/ /\ got = MaxOutput + 1 \/ (got = written /\ holders = {})
        /\ reader' = "done" /\ UNCHANGED got
  /\ UNCHANGED <<plugin, pc, stdin, child, status, holders, written, expired, result>>

Expire ==
  /\ pc = "poll" /\ ~expired
  /\ expired' = TRUE
  /\ UNCHANGED <<plugin, pc, stdin, child, status, holders, written, got, reader, result>>

(* try_wait: failed, ended, or timed out and killed, or sleep (no change). *)
Poll ==
  /\ pc = "poll"
  /\ \/ child = "failed" /\ child' = "reaped" /\ Return("exited") /\ UNCHANGED <<status, holders>>
     \/ child = "ok" /\ child' = "reaped" /\ pc' = "join" /\ UNCHANGED <<result, status, holders>>
     \/ /\ child = "running" /\ expired
        /\ child' = "reaped" /\ status' = "killed" /\ holders' = holders \ {"child"}
        /\ Return("timeout")
     \/ Return("wait failed") /\ UNCHANGED <<child, status, holders>>
  /\ UNCHANGED <<plugin, stdin, written, got, reader, expired>>

(* Faulty check: only the reader's limit applies. *)
JoinUnchecked ==
  /\ pc = "join" /\ reader = "done"
  /\ Return(IF plugin.answer # "result" THEN plugin.answer ELSE "ok")
  /\ UNCHANGED <<plugin, stdin, child, status, holders, written, got, reader, expired>>

(* Join the reader; then the size, JSON, envelope, error and result checks. *)
JoinReader ==
  /\ pc = "join" /\ reader = "done"
  /\ Return(IF got > MaxOutput THEN "too much output"
            ELSE IF plugin.answer # "result" THEN plugin.answer ELSE "ok")
  /\ UNCHANGED <<plugin, stdin, child, status, holders, written, got, reader, expired>>

Done == pc = "returned" /\ UNCHANGED vars

Caller == Start \/ WriteRequest \/ Poll \/ JoinReader

Next == Caller \/ Read \/ Expire \/ ChildReads \/ ChildWrites \/ ChildExits \/ GrandchildExits \/ Done

(* The calling thread, the reader thread and the clock run; the plugin may  *)
(* stop at any point.                                                       *)
Spec == Init /\ [][Next]_vars /\ WF_vars(Caller) /\ WF_vars(Read) /\ WF_vars(Expire)

-----------------------------------------------------------------------------
(* Properties *)

(* A call succeeds only on a declared capability of a valid manifest, after *)
(* the plugin ended well, with an answer that is its whole output and       *)
(* within max_output_bytes; and once the request was written, the plugin's  *)
(* process is gone when the call returns.                                   *)
AnswerIsWhole ==
  /\ result = "ok" =>
       /\ plugin.manifest = "valid" /\ plugin.declared /\ plugin.answer = "result"
       /\ status = "ok" /\ got <= MaxOutput
       /\ got = written /\ holders = {}
  /\ pc = "returned" /\ result \notin {"refused", "not started", "write failed", "wait failed"} => child = "reaped"

=============================================================================
