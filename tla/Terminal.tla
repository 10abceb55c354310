------------------------------ MODULE Terminal ------------------------------
(* A terminal in the browser: one thread carries what is typed to the guest, *)
(* the other what the guest prints to the page, over two WebSockets that     *)
(* either end may break while the other thread is reading or writing.        *)
EXTENDS Integers, Sequences

CONSTANTS
    MaxChunks,   \* bound: what the guest prints
    MaxKeys      \* bound: what the page sends

VARIABLES
    kind,    \* a shell, or the instance's console
    guest,   \* the command, or the console: does it run, has it printed, does it read
    wire,    \* what the daemon has sent and nobody has read
    data,    \* the daemon's channels: marked closed, broken, one of them for resizes
    in,      \* the thread from the page to the guest
    out,     \* the one from the guest to the page
    page,    \* the browser, and this end of its connection
    code,    \* what the shell exited with, as far as it is known
    late,    \* the daemon took longer over a finished operation than it is given
    keys     \* what the page has sent

vars == <<kind, guest, wire, data, in, out, page, code, late, keys>>

\* The daemon keeps an operation running while any of its channels is attached.
Finished == guest.is # "runs" /\ data.broken

Init ==
    /\ kind \in {"shell", "console"}
    /\ guest = [is |-> "runs", printed |-> 0, reads |-> TRUE]
    /\ wire = <<>>
    /\ data \in [closed : {FALSE}, broken : {FALSE}, resizes : BOOLEAN]
    /\ in = "none" /\ out = "asks"
    /\ page = [is |-> "there", seen |-> <<>>, closed |-> FALSE]
    /\ code = "unknown"
    /\ late = FALSE
    /\ keys = 0

-----------------------------------------------------------------------------
(* Opening. *)

\* The session is attached before the upgrade is answered.
Open ==
    /\ out = "asks"
    /\ in' = "reads" /\ out' = "reads"
    /\ UNCHANGED <<kind, guest, wire, data, page, code, late, keys>>

\* The instance does not run, the daemon refuses, or the page is gone by then.
Refused ==
    /\ out = "asks"
    /\ out' = "refused"
    /\ \/ UNCHANGED data
       \/ data' = [data EXCEPT !.closed = TRUE, !.broken = TRUE]
    /\ UNCHANGED <<kind, guest, wire, in, page, code, late, keys>>

-----------------------------------------------------------------------------
(* WebSocket.close of the daemon's channels, by either thread. *)

\* One write at a time: what is being written holds up a goodbye.
Free == in # "writes"

\* Break the channel at once when it is marked closed, or say goodbye first.
Mark(pc, next) ==
    IF data.closed
    THEN pc' = next /\ data' = [data EXCEPT !.broken = TRUE]
    ELSE pc' = "goodbye" /\ data' = [data EXCEPT !.closed = TRUE]

Goodbye(pc, next) ==
    /\ Free
    /\ pc' = next
    /\ data' = [data EXCEPT !.broken = TRUE]

-----------------------------------------------------------------------------
(* From the page to the guest. *)

\* A key waits for the guest to take it; a resize is lost if there is no channel for it.
Key ==
    /\ in = "reads" /\ page.is = "there" /\ ~page.closed /\ keys < MaxKeys
    /\ keys' = keys + 1
    /\ \/ in' = IF data.closed THEN "reads" ELSE "writes"
       \/ data.resizes /\ UNCHANGED in
    /\ UNCHANGED <<kind, guest, wire, data, out, page, code, late>>

Written ==
    /\ in = "writes"
    /\ \/ guest.is = "runs" /\ guest.reads /\ ~data.broken /\ in' = "reads"
       \/ (guest.is # "runs" \/ data.broken) /\ in' = "close"     \* the write fails
    /\ data' = IF in' = "close" THEN [data EXCEPT !.closed = TRUE] ELSE data
    /\ UNCHANGED <<kind, guest, wire, out, page, code, late, keys>>

\* The page says goodbye and is answered, or its connection is gone, or this end broke it.
PageLeft ==
    /\ in = "reads"
    /\ page.is # "there" \/ page.closed
    /\ in' = "close"
    /\ \/ page' = [page EXCEPT !.closed = TRUE]
       \/ page.is = "lost" /\ UNCHANGED page
    /\ UNCHANGED <<kind, guest, wire, data, out, code, late, keys>>

InCloses ==
    /\ \/ in = "close" /\ Mark(in, "over")
       \/ in = "goodbye" /\ Goodbye(in, "over")
    /\ UNCHANGED <<kind, guest, wire, out, page, code, late, keys>>

-----------------------------------------------------------------------------
(* From the guest to the page. *)

\* What is left in the channel is read even when it is broken; an empty message ends it.
Ending == IF kind = "shell" THEN "close" ELSE "hangs"

Read ==
    /\ out = "reads"
    /\ \/ /\ wire # <<>>
          /\ wire' = Tail(wire)
          /\ out' = IF Head(wire) = "end" THEN Ending ELSE "sends"
       \/ wire = <<>> /\ data.broken /\ out' = Ending /\ UNCHANGED wire
    /\ UNCHANGED <<kind, guest, data, in, page, code, late, keys>>

\* Does what is sent arrive?  After a goodbye nothing is sent, which is no failure.
Reaches(what, next) ==
    \/ page.is = "there" /\ ~page.closed /\ out' = next
       /\ page' = [page EXCEPT !.seen = Append(@, what)]
    \/ page.closed /\ out' = next /\ UNCHANGED page
    \/ page.is # "there" /\ ~page.closed /\ out' = next /\ UNCHANGED page

SendFails(next) ==
    /\ page.is = "lost" /\ ~page.closed
    /\ out' = next
    /\ page' = [page EXCEPT !.closed = TRUE]

Send ==
    /\ out = "sends"
    /\ Reaches("chunk", "reads") \/ SendFails(Ending)
    /\ UNCHANGED <<kind, guest, wire, data, in, code, late, keys>>

\* Mutant: exit_code asks while it is still attached.
AsksAttached == out' = "waits" /\ UNCHANGED data

\* exit_code hangs up first: only then does the operation finish.
ExitCode == Mark(out, "waits")

OutCloses ==
    /\ \/ out = "close" /\ ExitCode
       \/ out = "goodbye" /\ Goodbye(out, "waits")
    /\ UNCHANGED <<kind, guest, wire, in, page, code, late, keys>>

\* Five seconds for the operation to finish; its record carries the code or does not.
Waited ==
    /\ out = "waits"
    /\ out' = "says"
    /\ \/ Finished /\ code' = "known" /\ UNCHANGED late
       \/ code' = "none" /\ late' = Finished
    /\ UNCHANGED <<kind, guest, wire, data, in, page, keys>>

Say ==
    /\ out = "says"
    /\ IF code = "known" THEN Reaches("code", "hangs") \/ SendFails("hangs")
       ELSE out' = "hangs" /\ UNCHANGED page
    /\ UNCHANGED <<kind, guest, wire, data, in, code, late, keys>>

\* browser.close frees the other thread, which is waited for two seconds.
HangsUp ==
    /\ out = "hangs"
    /\ out' = "joins"
    /\ page' = [page EXCEPT !.closed = TRUE]
    /\ UNCHANGED <<kind, guest, wire, data, in, code, late, keys>>

Joined ==
    /\ out = "joins"
    /\ data.closed \/ Free
    /\ out' = "over"
    /\ data' = [data EXCEPT !.closed = TRUE, !.broken = TRUE]
    /\ UNCHANGED <<kind, guest, wire, in, page, code, late, keys>>

-----------------------------------------------------------------------------
(* The guest, the daemon and the browser. *)

Prints ==
    /\ guest.is = "runs" /\ guest.printed < MaxChunks /\ ~data.broken /\ out # "asks"
    /\ guest' = [guest EXCEPT !.printed = @ + 1]
    /\ wire' = Append(wire, "chunk")
    /\ UNCHANGED <<kind, data, in, out, page, code, late, keys>>

Stops ==
    /\ guest.is = "runs" /\ out # "asks"
    /\ guest' = [guest EXCEPT !.is = IF data.broken THEN "cutOff" ELSE "exited"]
    /\ wire' = IF data.broken THEN wire ELSE Append(wire, "end")
    /\ UNCHANGED <<kind, data, in, out, page, code, late, keys>>

TakesOrNot ==
    /\ guest.is = "runs"
    /\ guest' = [guest EXCEPT !.reads = ~@]
    /\ UNCHANGED <<kind, wire, data, in, out, page, code, late, keys>>

Leaves ==
    /\ page.is = "there" /\ ~page.closed
    /\ page' \in {[page EXCEPT !.is = how] : how \in {"leaving", "lost"}}
    /\ UNCHANGED <<kind, guest, wire, data, in, out, code, late, keys>>

Next ==
    \/ Open \/ Refused
    \/ Key \/ Written \/ PageLeft \/ InCloses
    \/ Read \/ Send \/ OutCloses \/ Waited \/ Say \/ HangsUp \/ Joined
    \/ Prints \/ Stops \/ TakesOrNot \/ Leaves

-----------------------------------------------------------------------------
(* A shell that ended by itself, before a page that stayed: when the session is *)
(* over the page has everything it printed and then what it exited with,        *)
(* whichever thread noticed the end first and broke the channel under the       *)
(* other, unless the daemon took too long (exit_code, _bridge).                 *)
ExitIsTold ==
    /\ out \in {"joins", "over"} /\ kind = "shell" /\ guest.is = "exited" /\ ~late
    /\ page.is = "there"
    => page.seen = [i \in 1 .. guest.printed |-> "chunk"] \o <<"code">>

-----------------------------------------------------------------------------
(* Why it holds: the inductive invariant, proved in NodePartsProof. *)

Outs == {"asks", "refused", "reads", "sends", "close", "goodbye", "waits", "says", "hangs", "joins",
         "over"}

TypeOK ==
    /\ guest \in [is : {"runs", "exited", "cutOff"}, printed : Nat, reads : BOOLEAN]
    /\ wire \in Seq({"chunk", "end"})
    /\ data \in [closed : BOOLEAN, broken : BOOLEAN, resizes : BOOLEAN]
    /\ out \in Outs
    /\ page \in [is : {"there", "leaving", "lost"}, seen : Seq({"chunk", "code"}), closed : BOOLEAN]
    /\ late \in BOOLEAN

Chunks(count) == [i \in 1 .. count |-> "chunk"]

\* A page that stays is cut off by no other than the thread that hangs up.
HoldsOn == out \notin {"refused", "joins", "over"} => ~page.closed

\* While it is read: what was printed is with the page, in a hand, or on the wire, in
\* this order, and behind it the end of a command that ended by itself.
Exited == guest.is = "exited"

Flows ==
    out \in {"asks", "reads", "sends"} =>
        /\ page.seen = Chunks(Len(page.seen))
        /\ \A i \in 1 .. Len(wire) :
              wire[i] = IF Exited /\ i = Len(wire) THEN "end" ELSE "chunk"
        /\ Exited => wire # <<>>
        /\ Len(page.seen) + (IF out = "sends" THEN 1 ELSE 0) + Len(wire) =
               guest.printed + (IF Exited THEN 1 ELSE 0)

\* After it: a command that ended by itself was read to its end; one that runs can only
\* be cut off.
Told ==
    /\ out \in {"close", "goodbye", "waits", "says", "hangs", "joins", "over"} =>
           Exited \/ data.broken
    /\ out \in {"close", "goodbye", "waits", "says"} /\ Exited =>
           page.seen = Chunks(guest.printed)
    /\ out \in {"waits", "says"} => data.broken
    /\ out = "says" /\ Exited /\ ~late => code = "known"
    /\ out \in {"hangs", "joins", "over"} /\ Exited /\ ~late =>
           page.seen = Chunks(guest.printed) \o <<"code">>

TellInv ==
    /\ TypeOK
    /\ out = "asks" => guest.is = "runs"
    /\ kind = "shell" /\ page.is = "there" /\ guest.is # "cutOff" => HoldsOn /\ Flows /\ Told
=============================================================================
