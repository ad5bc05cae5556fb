--------------------------- MODULE TerminalStream ----------------------------
(***************************************************************************)
(* How the output of a PTY reaches the browsers that watch it, and their   *)
(* input the PTY: TerminalSession of pty_manager.py with its reader        *)
(* thread, and the stream half of handle_gateway_relay_session(), one      *)
(* thread for each relay session.  A chunk of output is its sequence       *)
(* number; a frame is the set of chunks whose bytes it carries.            *)
(***************************************************************************)
EXTENDS Naturals, Sequences

CONSTANTS
    Terminal,      \* terminals that are or may be opened
    Session,       \* relay sessions, each with a thread
    Ring,          \* the chunks that TerminalSession keeps
    MaxOutput,     \* bound: chunks a terminal prints
    MaxInput,      \* bound: the input sequence numbers of the clients
    MaxFrames,     \* bound: frames a session handles
    FlushTimer     \* whether NAPSEER_GATEWAY_PTY_INTERACTIVE_FLUSH_MS is not 0

\* The timer thread of a session.
Timer(s) == <<"timer", s>>

ASSUME TerminalStreamAssumption ==
    /\ Ring \in Nat \ {0} /\ {MaxOutput, MaxInput, MaxFrames} \subseteq Nat
    /\ FlushTimer \in BOOLEAN /\ Terminal \cap Session = {}
    /\ \A s \in Session : Timer(s) \notin Terminal \cup Session

VARIABLES
    tty,        \* a terminal: not yet opened, open, its process has ended, removed
    output,     \* TerminalSession.output_seq
    listeners,  \* TerminalSession._callbacks, by session
    reader,     \* the chunk that _read_loop() hands out, and to whom still
    lastInput,  \* TerminalSession.last_input_seq
    written,    \* the input that reached the terminal, in order
    buffer,     \* pty_output_state["buffer"]: chunks of a session, not yet sent
    label,      \* pty_output_state["terminal_id"] and ["seq"], of all that is buffered
    timer,      \* pty_output_state["timer"] is set
    flush,      \* what a thread does in flush_pty_terminal_output()
    at,         \* where the thread of a session is
    job,        \* the terminal it opens, and last_output_seq; or the input it writes
    reply,      \* what attach() returned
    frames,     \* frames that a session has handled
    dead,       \* relay_closed
    remote,     \* gateway_remote_should_run()
    told,       \* chunks that were sent to the client, or that a gap told it of
    slipped,    \* history: chunks printed between attach() and subscribe()
    withheld,   \* history: chunks of a replay that was not sent
    strayed     \* history: chunks that a reader the session has left relabelled

terminals == <<tty, output, listeners, reader, lastInput, written>>
sessions == <<buffer, label, timer, flush, at, job, reply, frames, dead, remote>>
history == <<told, slipped, withheld, strayed>>
streamVars == <<terminals, sessions, history>>

Chunk == Terminal \X (1 .. MaxOutput)
Nobody == "nobody"
Flusher == Terminal \cup Session \cup {Timer(s) : s \in Session}
NoLabel == <<"none", 0>>
NoFlush == [at |-> "no", to |-> Nobody, as |-> NoLabel, data |-> {}]
NoJob == [tty |-> "none", last |-> 0]

StreamTypeOK ==
    /\ tty \in [Terminal -> {"absent", "open", "exited", "removed"}]
    /\ output \in [Terminal -> 0 .. MaxOutput]
    /\ listeners \in [Terminal -> SUBSET Session]
    /\ reader \in [Terminal -> SUBSET Session]
    /\ lastInput \in [Terminal -> 0 .. MaxInput]
    /\ written \in [Terminal -> Seq(1 .. MaxInput)]
    /\ buffer \in [Session -> SUBSET Chunk]
    /\ label \in [Session -> Chunk \cup {NoLabel}]
    /\ timer \in [Session -> BOOLEAN]
    /\ flush \in [Flusher -> [at : {"no", "take", "send"}, to : Session \cup {Nobody},
                             as : Chunk \cup {NoLabel}, data : SUBSET Chunk]]
    /\ at \in [Session -> {"serve", "stop", "attach", "reply", "subscribe", "write", "end", "ended"}]
    /\ job \in [Session -> [tty : Terminal \cup {"none"}, last : 0 .. MaxOutput + MaxInput]]
    /\ reply \in [Session -> SUBSET Chunk]
    /\ frames \in [Session -> 0 .. MaxFrames]
    /\ dead \in [Session -> BOOLEAN] /\ remote \in BOOLEAN
    /\ {told, slipped, withheld, strayed} \subseteq [Session -> SUBSET Chunk]

StreamInit ==
    /\ tty \in [Terminal -> {"absent", "open"}]
    /\ output = [t \in Terminal |-> 0]
    /\ listeners = [t \in Terminal |-> {}] /\ reader = [t \in Terminal |-> {}]
    /\ lastInput = [t \in Terminal |-> 0] /\ written = [t \in Terminal |-> <<>>]
    /\ buffer = [s \in Session |-> {}] /\ label = [s \in Session |-> NoLabel]
    /\ timer = [s \in Session |-> FALSE]
    /\ flush = [f \in Flusher |-> NoFlush]
    /\ at = [s \in Session |-> "serve"] /\ job = [s \in Session |-> NoJob]
    /\ reply = [s \in Session |-> {}] /\ frames = [s \in Session |-> 0]
    /\ dead = [s \in Session |-> FALSE] /\ remote = TRUE
    /\ told = [s \in Session |-> {}]
    /\ slipped = [s \in Session |-> {}] /\ withheld = [s \in Session |-> {}]
    /\ strayed = [s \in Session |-> {}]

Kept(t) == {<<t, n>> : n \in {m \in 1 .. output[t] : m + Ring > output[t]}}
UpTo(t, n) == {<<t, m>> : m \in 1 .. n}
Go(s, place) == at' = [at EXCEPT ![s] = place]

-----------------------------------------------------------------------------
(* The reader thread of a terminal: _read_loop().                          *)

\* Under the lock: the chunk enters the ring and the callbacks are copied.
Read(t) ==
    /\ tty[t] = "open" /\ output[t] < MaxOutput
    /\ reader[t] = {} /\ flush[t] = NoFlush
    /\ output' = [output EXCEPT ![t] = @ + 1]
    /\ reader' = [reader EXCEPT ![t] = listeners[t]]
    /\ slipped' = [s \in Session |->
           IF at[s] \in {"reply", "subscribe"} /\ job[s].tty = t /\ ~dead[s]
             THEN slipped[s] \cup {<<t, output[t] + 1>>} ELSE slipped[s]]
    /\ UNCHANGED <<tty, listeners, lastInput, written, sessions, told, withheld, strayed>>

\* A thread enters flush_pty_terminal_output().
Flush(s) == [at |-> "take", to |-> s, as |-> NoLabel, data |-> {}]

\* What is buffered of other terminals.
Foreign(s, t) == {c \in buffer[s] : c[1] # t}

\* Mutant: the label of a buffer that is not empty stays.
FirstLabel(t, s) == IF buffer[s] = {} THEN [label EXCEPT ![s] = <<t, output[t]>>] ELSE label

Relabelled(t, s) == [label EXCEPT ![s] = <<t, output[t]>>]

\* send_pty_terminal_chunk(), outside the lock of the terminal: whatever is
\* buffered takes the label of the last chunk, be it of a terminal that the
\* session has left while the reader was on its way.  A large chunk that does
\* not end a line may wait for the timer.
Deliver(t, s) ==
    /\ s \in reader[t] /\ flush[t] = NoFlush
    /\ reader' = [reader EXCEPT ![t] = @ \ {s}]
    /\ buffer' = [buffer EXCEPT ![s] = @ \cup {<<t, output[t]>>}]
    /\ label' = Relabelled(t, s)
    /\ strayed' = IF s \in listeners[t] THEN strayed ELSE [strayed EXCEPT ![s] = @ \cup Foreign(s, t)]
    /\ \/ /\ flush' = [flush EXCEPT ![t] = Flush(s)]
          /\ UNCHANGED timer
       \/ /\ FlushTimer
          /\ timer' = [timer EXCEPT ![s] = TRUE]
          /\ UNCHANGED flush
    /\ UNCHANGED <<tty, output, listeners, lastInput, written, at, job, reply, frames, dead, remote, told, slipped, withheld>>

\* The process ends: the session stays in the manager, closed.
Exit(t) ==
    /\ tty[t] = "open" /\ reader[t] = {} /\ flush[t] = NoFlush
    /\ tty' = [tty EXCEPT ![t] = "exited"]
    /\ UNCHANGED <<output, listeners, reader, lastInput, written, sessions, history>>

-----------------------------------------------------------------------------
(* flush_pty_terminal_output(), by the readers, the timers and the sessions. *)

Fire(s) ==
    /\ timer[s] /\ flush[Timer(s)] = NoFlush
    /\ timer' = [timer EXCEPT ![s] = FALSE]
    /\ flush' = [flush EXCEPT ![Timer(s)] = Flush(s)]
    /\ UNCHANGED <<terminals, buffer, label, at, job, reply, frames, dead, remote, history>>

\* Under the lock of the output state ...
Take(f) ==
    LET s == flush[f].to IN
    /\ flush[f].at = "take"
    /\ timer' = [timer EXCEPT ![s] = FALSE]
    /\ buffer' = [buffer EXCEPT ![s] = {}]
    /\ flush' = [flush EXCEPT ![f] = IF buffer[s] = {} THEN NoFlush
                                     ELSE [at |-> "send", to |-> s, as |-> label[s], data |-> buffer[s]]]
    /\ UNCHANGED <<terminals, label, at, job, reply, frames, dead, remote, history>>

\* The client gives the bytes of a frame to the terminal that the frame names.
Understood(f) == {c \in flush[f].data : c[1] = flush[f].as[1]}

\* ... and outside it.
Send(f) ==
    LET s == flush[f].to IN
    /\ flush[f].at = "send"
    /\ told' = IF dead[s] THEN told ELSE [told EXCEPT ![s] = @ \cup Understood(f)]
    /\ flush' = [flush EXCEPT ![f] = NoFlush]
    /\ UNCHANGED <<terminals, buffer, label, timer, at, job, reply, frames, dead, remote, slipped, withheld, strayed>>

-----------------------------------------------------------------------------
(* The thread of a session.                                                *)

Frame(s) ==
    /\ at[s] = "serve" /\ ~dead[s] /\ frames[s] < MaxFrames
    /\ frames' = [frames EXCEPT ![s] = @ + 1]

\* start_pty_terminal_stream() begins with stop_terminal_stream().
Stop(s, next, j) ==
    /\ Go(s, next)
    /\ job' = [job EXCEPT ![s] = j]
    /\ flush' = [flush EXCEPT ![s] = Flush(s)]

\* terminal.open, terminal.select: 0 asks for a snapshot.
Open(s, t, last) ==
    /\ Frame(s) /\ tty[t] \in {"open", "exited"} /\ last <= output[t]
    /\ Stop(s, "stop", [tty |-> t, last |-> last])
    /\ UNCHANGED <<terminals, buffer, label, timer, reply, dead, remote, history>>

\* terminal.create.
Create(s, t) ==
    /\ Frame(s) /\ tty[t] = "absent"
    /\ tty' = [tty EXCEPT ![t] = "open"]
    /\ Stop(s, "stop", [tty |-> t, last |-> 0])
    /\ UNCHANGED <<output, listeners, reader, lastInput, written, buffer, label, timer, reply, dead, remote, history>>

\* terminal.close: then the stream of a terminal that is left, if there is one.
Close(s, t) ==
    /\ Frame(s) /\ tty[t] \in {"open", "exited"}
    /\ tty' = [tty EXCEPT ![t] = "removed"]
    /\ \/ \E next \in Terminal \ {t} :
             tty[next] \in {"open", "exited"} /\ Stop(s, "stop", [tty |-> next, last |-> 0])
       \/ UNCHANGED <<at, job, flush>> /\ \A next \in Terminal \ {t} : tty[next] \in {"absent", "removed"}
    /\ UNCHANGED <<output, listeners, reader, lastInput, written, buffer, label, timer, reply, dead, remote, history>>

Unsubscribe(s) ==
    /\ at[s] \in {"stop", "end"} /\ flush[s] = NoFlush
    /\ listeners' = [t \in Terminal |-> listeners[t] \ {s}]
    /\ Go(s, IF at[s] = "stop" THEN "attach" ELSE "ended")
    /\ UNCHANGED <<tty, output, reader, lastInput, written, buffer, label, timer, flush, job, reply, frames, dead, remote, history>>

\* last_output_seq < oldest_seq - 1.
Gap(t, last) == {c \in Kept(t) : last + 1 < c[2]} = Kept(t)

\* What attach() tells the client: a snapshot stands for all before it, a gap
\* frame for what the ring has lost, and the rest is replayed, except that a
\* branch of the relay loop that has strayed here sends nothing when remote
\* access is on.
Replay(s, t, last) == {c \in Kept(t) : c[2] > last}

Attach(s) ==
    LET t == job[s].tty
        last == job[s].last
        lost == UpTo(t, output[t]) \ (UpTo(t, last) \cup Kept(t)) IN
    /\ at[s] = "attach"
    /\ IF tty[t] = "removed"
         THEN Go(s, "serve") /\ UNCHANGED <<reply, history>>
         ELSE /\ Go(s, "reply")
              /\ told' = [told EXCEPT ![s] = IF dead[s] THEN {} ELSE UpTo(t, last)]
              /\ slipped' = [slipped EXCEPT ![s] = {}] /\ strayed' = [strayed EXCEPT ![s] = {}]
              /\ withheld' = [withheld EXCEPT ![s] = IF last > 0 /\ remote /\ ~dead[s] THEN Replay(s, t, last) ELSE {}]
              /\ reply' = [reply EXCEPT ![s] =
                     IF last = 0 THEN UpTo(t, output[t])
                     ELSE (IF Gap(t, last) THEN lost ELSE {})
                          \cup (IF remote THEN {} ELSE Replay(s, t, last))]
    /\ UNCHANGED <<terminals, buffer, label, timer, flush, job, frames, dead, remote>>

\* send_gateway_payload() of the gap, the snapshot, the replay.
Reply(s) ==
    /\ at[s] = "reply"
    /\ IF dead[s]
         THEN Stop(s, "end", NoJob) /\ UNCHANGED told
         ELSE /\ told' = [told EXCEPT ![s] = @ \cup reply[s]]
              /\ Go(s, "subscribe") /\ UNCHANGED <<job, flush>>
    /\ reply' = [reply EXCEPT ![s] = {}]
    /\ UNCHANGED <<terminals, buffer, label, timer, frames, dead, remote, slipped, withheld, strayed>>

Subscribe(s) ==
    /\ at[s] = "subscribe"
    /\ Go(s, "serve")
    /\ listeners' = IF tty[job[s].tty] = "removed" THEN listeners
                    ELSE [listeners EXCEPT ![job[s].tty] = @ \cup {s}]
    /\ job' = [job EXCEPT ![s] = NoJob]
    /\ UNCHANGED <<tty, output, reader, lastInput, written, buffer, label, timer, flush, reply, frames, dead, remote, history>>

\* Mutant: the number is not recorded.
NotRecording(t, n) == lastInput

Recording(t, n) == [lastInput EXCEPT ![t] = n]

\* terminal.data: the number is looked at and recorded under the lock ...
Input(s, t, n) ==
    /\ Frame(s) /\ tty[t] = "open"
    /\ IF n <= lastInput[t]
         THEN UNCHANGED <<lastInput, at, job>>
         ELSE /\ lastInput' = Recording(t, n)
              /\ Go(s, "write")
              /\ job' = [job EXCEPT ![s] = [tty |-> t, last |-> n]]
    /\ UNCHANGED <<tty, output, listeners, reader, written, buffer, label, timer, flush, reply, dead, remote, history>>

\* ... and _write_all() runs outside it; a terminal that was closed drops it.
Write(s) ==
    LET t == job[s].tty IN
    /\ at[s] = "write"
    /\ written' = IF tty[t] = "open" THEN [written EXCEPT ![t] = Append(@, job[s].last)] ELSE written
    /\ Go(s, "serve")
    /\ UNCHANGED <<tty, output, listeners, reader, lastInput, buffer, label, timer, flush, job, reply, frames, dead, remote, history>>

\* The socket fails: the next read or send ends the session.
Disconnect(s) ==
    /\ ~dead[s]
    /\ dead' = [dead EXCEPT ![s] = TRUE]
    /\ told' = [told EXCEPT ![s] = {}]
    /\ slipped' = [slipped EXCEPT ![s] = {}] /\ withheld' = [withheld EXCEPT ![s] = {}]
    /\ strayed' = [strayed EXCEPT ![s] = {}]
    /\ UNCHANGED <<terminals, buffer, label, timer, flush, at, job, reply, frames, remote>>

\* finally: stop_terminal_stream().
End(s) ==
    /\ at[s] = "serve" /\ dead[s]
    /\ Stop(s, "end", NoJob)
    /\ UNCHANGED <<terminals, buffer, label, timer, reply, frames, dead, remote, history>>

\* gateway_remote_disable().
Disable ==
    /\ remote /\ remote' = FALSE
    /\ UNCHANGED <<terminals, buffer, label, timer, flush, at, job, reply, frames, dead, history>>

StreamNext ==
    \/ \E t \in Terminal : Read(t) \/ Exit(t) \/ \E s \in Session : Deliver(t, s)
    \/ \E f \in Flusher : Take(f) \/ Send(f)
    \/ \E s \in Session :
          \/ Fire(s) \/ Unsubscribe(s) \/ Attach(s) \/ Reply(s) \/ Subscribe(s)
          \/ Write(s) \/ Disconnect(s) \/ End(s)
          \/ \E t \in Terminal :
                \/ Create(s, t) \/ Close(s, t)
                \/ \E last \in 0 .. MaxOutput : Open(s, t, last)
                \/ \E n \in 1 .. MaxInput : Input(s, t, n)
    \/ Disable

StreamSpec == StreamInit /\ [][StreamNext]_streamVars

-----------------------------------------------------------------------------
(* Properties.                                                             *)

\* What the reader threads hold for a client.
InReaders(s) == {<<t, output[t]>> : t \in {u \in Terminal : s \in reader[u]}}

\* A chunk on its way to a client: a reader holds it, it is in the buffer, or
\* some thread has taken it and not sent it yet; the label is that of its
\* terminal.
OnTheWay(s) ==
    {c \in buffer[s] : c[1] = label[s][1]}
      \cup (UNION {Understood(f) : f \in {g \in Flusher : flush[g].to = s}})
      \cup InReaders(s)

\* A client that watches a terminal gets every chunk after the last it had
\* under the name of its terminal, or is told of a gap, also when it comes back
\* to the oldest chunk of the ring, and whichever threads append and flush.
\* Three ways to lose output are left, and all are in the code: chunks that are
\* printed between attach() and subscribe(), the replay that is not sent when
\* remote access is on, and chunks that wait in the buffer when the reader of a
\* terminal that the session has left appends its last chunk behind them.
NothingElseIsLost ==
    \A s \in Session : \A t \in Terminal :
        (~dead[s] /\ s \in listeners[t] /\ at[s] \in {"serve", "write"}) =>
            UpTo(t, output[t]) \subseteq told[s] \cup OnTheWay(s) \cup slipped[s] \cup withheld[s] \cup strayed[s]

\* Input that is sent again, by the session of a client that has reconnected,
\* reaches the terminal once.
InputIsWrittenOnce ==
    \A t \in Terminal : \A i, j \in 1 .. Len(written[t]) :
        i # j => written[t][i] # written[t][j]
=============================================================================
