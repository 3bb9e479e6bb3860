-------------------------------- MODULE Relay --------------------------------
(***************************************************************************)
(* The relay parent of _exec_target_pty, from raw mode to the restored     *)
(* terminal: session_relay copies the user's keys to the pty master and    *)
(* the command's output from it to the screen and the transcript, passes   *)
(* on window sizes, and captures the keys while the slave echoes.          *)
(*                                                                         *)
(* One read moves one chunk.  Output is counted, a key is told apart only  *)
(* by whether it was typed while the echo was off.  The slave's line       *)
(* discipline is in raw mode: a write to a full input queue waits.         *)
(***************************************************************************)
EXTENDS Naturals, Sequences, FiniteSets

CONSTANTS
    Stdins,    \* what shakti's stdin may be
    LogInput,  \* is there a keystroke log? (log_input)
    InCap,     \* chunks the slave's input queue holds
    OutCap,    \* chunks its output queue holds
    MaxKeys,   \* bound on what the user types, for TLC
    MaxOut,    \* bound on what the command writes, for TLC
    MaxSize    \* bound on window sizes, for TLC

ASSUME RlAssumption ==
    /\ Stdins \subseteq {"tty", "file", "pipe"} /\ LogInput \in BOOLEAN
    /\ InCap \in Nat \ {0} /\ OutCap \in Nat \ {0}
    /\ MaxKeys \in Nat /\ MaxOut \in Nat /\ MaxSize \in Nat

VARIABLES
    stdin,     \* input: what stdin is
    rpc,       \* the relay's next step
    rev,       \* the revents of its last poll
    hand,      \* the key it has read and not yet dealt with
    reading,   \* stdin_open
    tty,       \* mode of the real terminal
    typed,     \* keys typed and not yet read by the relay
    keys,      \* number of keys typed
    ended,     \* has the input come to its end?
    inq,       \* keys in the slave's input queue
    captured,  \* kinds of key in the keystroke log
    echo,      \* the slave's ECHO flag
    written,   \* chunks the command has written
    carried,   \* chunks the relay has read from the master
    shown,     \* chunks it has written to stdout
    logged,    \* chunks it has written to the transcript
    holders,   \* the processes that hold the slave open
    size,      \* window size of the real terminal
    ptysize,   \* window size of the pty
    masked,    \* is SIGWINCH blocked and read by a signalfd?
    pending    \* is a SIGWINCH waiting there?

input == <<stdin, hand, reading, typed, keys, ended, inq, captured>>
output == <<written, carried, shown, logged>>
window == <<size, ptysize, masked, pending>>
rlVars == <<rpc, rev, tty, echo, holders, input, output, window>>

Loop == {"poll", "winch", "copy", "master", "show", "log", "stdin", "feed", "capture"}
After == {"reap", "restore", "over"}
Event == {"winch", "in", "hup", "key"}
Kind == {"plain", "secret"}
Nothing == "nothing"

RlInit ==
    /\ stdin \in Stdins
    /\ rpc = "raw" /\ rev = {} /\ tty = "cooked" /\ echo = TRUE
    /\ hand = Nothing /\ reading = TRUE /\ typed = <<>> /\ keys = 0
    /\ ended = FALSE /\ inq = <<>> /\ captured = {}
    /\ written = 0 /\ carried = 0 /\ shown = 0 /\ logged = 0
    /\ holders = {"command"}
    /\ size = 0 /\ ptysize = 0 /\ masked = FALSE /\ pending = FALSE

Move(from, to) == rpc = from /\ rpc' = to

------------------------------------------------------------------------------
(* The terminal in raw mode, then the head of session_relay: the size is   *)
(* copied, then SIGWINCH is blocked and its signalfd opened.               *)
MakeRaw ==
    /\ Move("raw", "size")
    /\ tty' = IF stdin = "tty" THEN "raw" ELSE tty
    /\ UNCHANGED <<rev, echo, holders, input, output, window>>

CopySize(from, to) ==
    /\ Move(from, to)
    /\ ptysize' = IF stdin = "tty" THEN size ELSE ptysize
    /\ UNCHANGED <<rev, tty, echo, holders, input, output, size, masked, pending>>

FirstSize == CopySize("size", "mask")

SigwinchFd ==
    /\ Move("mask", "poll")
    /\ masked' = TRUE
    /\ UNCHANGED <<rev, tty, echo, holders, input, output, size, ptysize, pending>>

(* poll: a pipe without writers is not readable, but its POLLHUP wakes     *)
(* the poll all the same.                                                  *)
Readable == typed # <<>> \/ (ended /\ stdin # "pipe")

Revents ==
    {e \in Event : \/ e = "winch" /\ pending
                   \/ e = "in" /\ carried < written
                   \/ e = "hup" /\ holders = {}
                   \/ e = "key" /\ reading /\ Readable}

Poll ==
    /\ Revents # {} \/ (reading /\ ended)
    /\ Move("poll", "winch")
    /\ rev' = Revents
    /\ UNCHANGED <<tty, echo, holders, input, output, window>>

GiveUp ==
    /\ \E from \in {"mask", "poll"} : Move(from, "reap")
    /\ UNCHANGED <<rev, tty, echo, holders, input, output, window>>

------------------------------------------------------------------------------
(* The signalfd is drained, then the size copied once more.                *)
DrainWinch ==
    /\ IF "winch" \in rev
       THEN Move("winch", "copy") /\ pending' = FALSE
       ELSE Move("winch", "master") /\ UNCHANGED pending
    /\ UNCHANGED <<rev, tty, echo, holders, input, output, size, ptysize, masked>>

Resize == CopySize("copy", "master")

SizeBeforeDrain ==
    \/ "winch" \in rev /\ CopySize("winch", "copy")
    \/ /\ "winch" \notin rev /\ Move("winch", "master")
       /\ UNCHANGED <<rev, tty, echo, holders, input, output, window>>
    \/ /\ Move("copy", "master") /\ pending' = FALSE
       /\ UNCHANGED <<rev, tty, echo, holders, input, output, size, ptysize, masked>>
WindowSize == DrainWinch \/ Resize

(* A read of the master; once hung up it is read until nothing is left,    *)
(* else once per wake, since a second read might wait.                     *)
KeepReadingNever == FALSE
KeepReadingAlways == TRUE
KeepReading == "hup" \in rev

ReadMaster ==
    /\ IF "in" \notin rev
       THEN Move("master", "stdin") /\ UNCHANGED carried
       ELSE \/ carried < written /\ carried' = carried + 1 /\ Move("master", "show")
            \/ carried = written /\ holders = {} /\ Move("master", "stdin") /\ UNCHANGED carried
    /\ UNCHANGED <<rev, tty, echo, holders, input, written, shown, logged, window>>

Show ==
    /\ Move("show", "log")
    /\ shown' = shown + 1
    /\ UNCHANGED <<rev, tty, echo, holders, input, written, carried, logged, window>>

Log ==
    /\ Move("log", IF KeepReading THEN "master" ELSE "stdin")
    /\ logged' = logged + 1
    /\ UNCHANGED <<rev, tty, echo, holders, input, written, carried, shown, window>>

------------------------------------------------------------------------------
HungUp == "hup" \in rev
Round(from) ==
    /\ Move(from, IF HungUp THEN "reap" ELSE "poll")
    /\ rev' = IF HungUp THEN rev ELSE {}

NoKey ==
    /\ "key" \notin rev
    /\ Round("stdin")
    /\ UNCHANGED <<tty, echo, holders, input, output, window>>

ReadKey ==
    /\ "key" \in rev /\ typed # <<>>
    /\ Move("stdin", "feed")
    /\ hand' = Head(typed) /\ typed' = Tail(typed)
    /\ UNCHANGED <<rev, tty, echo, holders, stdin, reading, keys, ended, inq, captured, output, window>>

EndOfInput ==
    /\ "key" \in rev /\ typed = <<>>
    /\ Round("stdin")
    /\ reading' = FALSE
    /\ UNCHANGED <<tty, echo, holders, stdin, hand, typed, keys, ended, inq, captured, output, window>>

(* The key goes to the master, where the write fails once the slave is     *)
(* closed; then, if there is a log of keys, the echo is looked at.         *)
Feed ==
    /\ Move("feed", "capture")
    /\ \/ holders = {} /\ UNCHANGED inq
       \/ holders # {} /\ Len(inq) < InCap /\ inq' = Append(inq, hand)
    /\ UNCHANGED <<rev, tty, echo, holders, stdin, hand, reading, typed, keys, ended, captured,
                   output, window>>

Capture ==
    /\ Round("capture")
    /\ captured' = IF LogInput /\ echo THEN captured \cup {hand} ELSE captured
    /\ hand' = Nothing
    /\ UNCHANGED <<tty, echo, holders, stdin, reading, typed, keys, ended, inq, output, window>>

(* waitpid, then the terminal as it was.                                   *)
Reap ==
    /\ "command" \notin holders
    /\ Move("reap", "restore")
    /\ UNCHANGED <<rev, tty, echo, holders, input, output, window>>

Restore ==
    /\ Move("restore", "over")
    /\ tty' = "cooked"
    /\ UNCHANGED <<rev, echo, holders, input, output, window>>

RelayStep ==
    \/ MakeRaw \/ FirstSize \/ SigwinchFd \/ Poll \/ WindowSize
    \/ ReadMaster \/ Show \/ Log \/ NoKey \/ ReadKey \/ EndOfInput \/ Feed \/ Capture
    \/ Reap \/ Restore

------------------------------------------------------------------------------
(* The user: types, sees the echo go off before typing a secret, ends the  *)
(* input, resizes the window (an unblocked SIGWINCH is ignored).           *)
Type ==
    /\ keys < MaxKeys /\ ~ended
    /\ keys' = keys + 1
    /\ typed' = Append(typed, IF echo THEN "plain" ELSE "secret")
    /\ UNCHANGED <<rpc, rev, tty, echo, holders, stdin, hand, reading, ended, inq, captured,
                   output, window>>

EndInput ==
    /\ stdin # "tty" /\ ~ended
    /\ ended' = TRUE
    /\ UNCHANGED <<rpc, rev, tty, echo, holders, stdin, hand, reading, typed, keys, inq, captured,
                   output, window>>

ResizeWindow ==
    /\ stdin = "tty" /\ size < MaxSize
    /\ size' = size + 1
    /\ pending' = masked
    /\ UNCHANGED <<rpc, rev, tty, echo, holders, input, output, ptysize, masked>>

(* The command and what it leaves behind.                                  *)
Write ==
    /\ holders # {} /\ written < MaxOut /\ written - carried < OutCap
    /\ written' = written + 1
    /\ UNCHANGED <<rpc, rev, tty, echo, holders, input, carried, shown, logged, window>>

Read ==
    /\ holders # {} /\ inq # <<>>
    /\ inq' = Tail(inq)
    /\ UNCHANGED <<rpc, rev, tty, echo, holders, stdin, hand, reading, typed, keys, ended, captured,
                   output, window>>

SetEcho ==
    /\ holders # {}
    /\ echo' = ~echo
    /\ UNCHANGED <<rpc, rev, tty, holders, input, output, window>>

Hold(hs) == holders' = hs /\ UNCHANGED <<rpc, rev, tty, echo, input, output, window>>

Daemonize == "command" \in holders /\ Hold(holders \cup {"background"})
Exits == \E h \in holders : Hold(holders \ {h})

(* SIGTERM, SIGHUP, or SIGPIPE from a reader of stdout that went away.     *)
Killed ==
    /\ rpc \notin {"over", "killed"} /\ rpc' = "killed"
    /\ rev' = {} /\ hand' = Nothing
    /\ UNCHANGED <<tty, echo, holders, stdin, reading, typed, keys, ended, inq, captured,
                   output, window>>

RlNext ==
    \/ RelayStep \/ GiveUp \/ Killed
    \/ Type \/ EndInput \/ ResizeWindow
    \/ Write \/ Read \/ SetEcho \/ Daemonize \/ Exits

RlSpec == RlInit /\ [][RlNext]_rlVars

(* Only the relay is required to run; its user, the command and what it    *)
(* leaves behind do as they like.                                          *)
FairRlSpec == RlSpec /\ WF_rlVars(RelayStep)

------------------------------------------------------------------------------
(* Every variable stays in its range; in particular the transcript is      *)
(* never more than one chunk behind the screen, nor ahead of it.           *)
RlTypeOK ==
    /\ stdin \in Stdins
    /\ rpc \in {"raw", "size", "mask", "killed"} \cup Loop \cup After
    /\ rev \in SUBSET Event
    /\ hand \in Kind \cup {Nothing} /\ (hand # Nothing => rpc \in {"feed", "capture", "killed"})
    /\ reading \in BOOLEAN /\ ended \in BOOLEAN /\ (~reading => ended)
    /\ tty \in {"cooked", "raw"} /\ echo \in BOOLEAN
    /\ typed \in Seq(Kind) /\ keys \in 0..MaxKeys
    /\ inq \in Seq(Kind) /\ Len(inq) \in 0..InCap /\ captured \in SUBSET Kind
    /\ written \in 0..MaxOut /\ carried \in 0..written
    /\ shown \in 0..carried /\ logged \in 0..shown
    /\ holders \in SUBSET {"command", "background"}
    /\ size \in 0..MaxSize /\ ptysize \in 0..size
    /\ masked \in BOOLEAN /\ pending \in BOOLEAN

(* When a relay has ended because the slave was closed, the screen and the *)
(* transcript have everything the command wrote, its last burst included   *)
(* (session_relay: "so a final burst larger than one buffer isn't          *)
(* truncated from the transcript").                                        *)
TranscriptComplete ==
    rpc \in After /\ "hup" \in rev => shown = written /\ logged = written

Gone == rpc \in After \cup {"killed"}

(* Neither direction waits for the other as long as the user has typed no  *)
(* more than the slave's input queue holds: what the command writes comes  *)
(* to the screen and what the user types leaves the terminal               *)
(* (session_relay: "so a blocking read can't stall the relay").            *)
TypedAhead == keys > InCap
BothWaysFlow ==
    /\ shown < written ~> shown = written \/ Gone \/ TypedAhead
    /\ typed # <<>> ~> typed = <<>> \/ Gone \/ TypedAhead


(* A resize reported by SIGWINCH reaches the pty, also one that comes      *)
(* while an earlier one is dealt with (session_relay).                     *)
ResizePropagated == pending ~> ptysize = size \/ Gone \/ TypedAhead

(* A key typed while the echo was off is not in the keystroke log ("typed  *)
(* secrets during a password prompt are never written").                   *)
SecretsRedacted == "secret" \notin captured

(* The end of stdin is noticed ("fd -1 (ignored by poll) once stdin hits   *)
(* EOF").                                                                  *)
StdinRetired == ended ~> ~reading \/ Gone

------------------------------------------------------------------------------
(* The inductive invariant: how far each count may lag at each step, and   *)
(* what a poll's answer still means when the relay acts on it.             *)
Lagging ==
    /\ rpc \in {"raw", "size", "mask", "poll", "winch", "copy", "master", "stdin",
                "feed", "capture"} \cup After => shown = carried /\ logged = carried
    /\ rpc = "show" => carried = shown + 1 /\ logged = shown
    /\ rpc = "log" => carried = shown /\ shown = logged + 1

Drained ==
    /\ rpc \in {"raw", "size", "mask", "poll"} => "hup" \notin rev
    /\ "hup" \in rev => holders = {}
    /\ "hup" \in rev /\ "in" \notin rev => carried = written
    /\ "hup" \in rev /\ rpc \in {"stdin", "feed", "capture"} \cup After => carried = written

Latched ==
    /\ rpc \in {"feed", "capture"} => hand # Nothing
    /\ "key" \in rev /\ rpc \in {"winch", "copy", "master", "show", "log", "stdin"} =>
          typed # <<>> \/ ended

RlIInv == RlTypeOK /\ Lagging /\ Drained /\ Latched
==============================================================================
