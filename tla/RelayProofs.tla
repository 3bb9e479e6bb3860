----------------------------- MODULE RelayProofs ------------------------------
(***************************************************************************)
(* Proofs about module Relay, for every queue length and every bound: the  *)
(* types, the inductive invariant, and the completeness of a transcript    *)
(* whose relay was ended by the slave's last close.                        *)
(***************************************************************************)
EXTENDS Relay, TLAPS

(* The initial state.                                                      *)
LEMMA RlInitial == RlInit => RlIInv
<1> SUFFICES ASSUME RlInit PROVE RlIInv
  OBVIOUS
<1> USE RlAssumption DEF RlInit
<1>1. typed \in Seq(Kind) /\ inq \in Seq(Kind) /\ Len(inq) = 0
  <2>1. <<>> \in Seq(Kind) /\ Len(<<>>) = 0
    OBVIOUS
  <2> QED
    BY <2>1
<1>2. /\ written \in 0..MaxOut /\ carried \in 0..written
      /\ shown \in 0..carried /\ logged \in 0..shown
      /\ keys \in 0..MaxKeys /\ size \in 0..MaxSize /\ ptysize \in 0..size
      /\ Len(inq) \in 0..InCap
  BY <1>1
<1>4. RlTypeOK
  BY <1>1, <1>2 DEF RlTypeOK, Event, Nothing
<1>3. Lagging /\ Drained /\ Latched
  BY DEF Lagging, Drained, Latched, After
<1> QED
  BY <1>3, <1>4 DEF RlIInv

(* The relay's own steps keep the invariant.                               *)
LEMMA RelayKeeps ==
    ASSUME RlIInv, RelayStep
    PROVE  RlIInv'
<1> USE RlAssumption DEF RlIInv, RlTypeOK, Lagging, Drained, Latched, Loop, After, Event, Kind,
    Nothing, Move, input, output, window
<1>1. CASE MakeRaw
  BY <1>1 DEF MakeRaw
<1>2. CASE FirstSize
  BY <1>2 DEF FirstSize, CopySize
<1>3. CASE SigwinchFd
  BY <1>3 DEF SigwinchFd
<1>4. CASE Poll
  <2>1. rev' \in SUBSET Event /\ rpc = "poll" /\ rpc' = "winch"
    BY <1>4 DEF Poll, Revents
  <2>2. /\ "hup" \in rev' <=> holders = {}
        /\ "in" \in rev' <=> carried < written
        /\ "key" \in rev' => typed # <<>> \/ ended
    BY <1>4 DEF Poll, Revents, Readable
  <2>3. RlTypeOK'
    BY <1>4, <2>1 DEF Poll
  <2>4. Lagging' /\ Latched'
    BY <1>4, <2>1, <2>2 DEF Poll
  <2>5. Drained'
    BY <1>4, <2>1, <2>2 DEF Poll
  <2> QED
    BY <2>3, <2>4, <2>5
<1>5. CASE DrainWinch
  <2>1. RlTypeOK'
    BY <1>5 DEF DrainWinch
  <2>2. Lagging' /\ Drained' /\ Latched'
    BY <1>5 DEF DrainWinch
  <2> QED
    BY <2>1, <2>2
<1>6. CASE Resize
  BY <1>6 DEF Resize, CopySize
<1>7. CASE ReadMaster
  BY <1>7 DEF ReadMaster
<1>8. CASE Show
  BY <1>8 DEF Show
<1>9. CASE Log
  BY <1>9 DEF Log, KeepReading
<1>10. CASE NoKey
  BY <1>10 DEF NoKey, Round, HungUp
<1>11. CASE ReadKey
  BY <1>11 DEF ReadKey
<1>12. CASE EndOfInput
  <2>1. rpc' \in {"reap", "poll"} /\ rpc = "stdin"
    BY <1>12 DEF EndOfInput, Round, HungUp
  <2>2. ended
    BY <1>12, <2>1 DEF EndOfInput
  <2>3. RlTypeOK'
    BY <1>12, <2>1, <2>2 DEF EndOfInput, Round
  <2>4. Lagging' /\ Drained' /\ Latched'
    BY <1>12 DEF EndOfInput, Round, HungUp
  <2> QED
    BY <2>3, <2>4
<1>13. CASE Feed
  <2>1. inq' \in Seq(Kind) /\ Len(inq') \in 0..InCap
    <3>1. CASE UNCHANGED inq
      BY <3>1
    <3>2. CASE Len(inq) < InCap /\ inq' = Append(inq, hand)
      <4>1. hand \in Kind
        BY <1>13 DEF Feed
      <4> QED
        BY <3>2, <4>1
    <3> QED
      BY <1>13, <3>1, <3>2 DEF Feed
  <2> QED
    BY <1>13, <2>1 DEF Feed
<1>14. CASE Capture
  <2>0. hand \in Kind /\ rpc' \in {"reap", "poll"}
    BY <1>14 DEF Capture, Round, HungUp
  <2>1. captured' \in SUBSET Kind /\ rpc' \in {"reap", "poll"}
    <3>1. CASE LogInput /\ echo
      BY <2>0, <3>1, <1>14 DEF Capture
    <3>2. CASE ~(LogInput /\ echo)
      BY <2>0, <3>2, <1>14 DEF Capture
    <3> QED
      BY <3>1, <3>2
  <2>2. RlTypeOK'
    BY <1>14, <2>1 DEF Capture, Round
  <2>3. Lagging' /\ Drained' /\ Latched'
    BY <1>14 DEF Capture, Round, HungUp
  <2> QED
    BY <2>2, <2>3
<1>15. CASE Reap
  BY <1>15 DEF Reap
<1>16. CASE Restore
  BY <1>16 DEF Restore
<1> QED
  BY <1>1, <1>2, <1>3, <1>4, <1>5, <1>6, <1>7, <1>8, <1>9, <1>10, <1>11, <1>12, <1>13, <1>14, <1>15, <1>16 DEF RelayStep, WindowSize

(* So do the user, the command, and what ends a relay early.               *)
LEMMA OthersKeep ==
    ASSUME RlIInv, GiveUp \/ Killed \/ Type \/ EndInput \/ ResizeWindow
                     \/ Write \/ Read \/ SetEcho \/ Daemonize \/ Exits
    PROVE  RlIInv'
<1> USE RlAssumption DEF RlIInv, RlTypeOK, Lagging, Drained, Latched, Loop, After, Event, Kind,
    Nothing, Move, input, output, window
<1>1. CASE GiveUp
  BY <1>1 DEF GiveUp
<1>2. CASE Killed
  BY <1>2 DEF Killed
<1>3. CASE Type
  BY <1>3 DEF Type
<1>4. CASE EndInput
  BY <1>4 DEF EndInput
<1>5. CASE ResizeWindow
  BY <1>5 DEF ResizeWindow
<1>6. CASE Write
  <2>1. written' \in 0..MaxOut /\ carried' \in 0..written' /\ carried' = carried
    BY <1>6 DEF Write
  <2>2. "hup" \notin rev /\ "hup" \notin rev'
    BY <1>6 DEF Write
  <2>3. RlTypeOK'
    BY <1>6, <2>1 DEF Write
  <2>4. Lagging' /\ Drained' /\ Latched'
    BY <1>6, <2>2 DEF Write
  <2> QED
    BY <2>3, <2>4
<1>7. CASE Read
  BY <1>7 DEF Read
<1>8. CASE SetEcho
  BY <1>8 DEF SetEcho
<1>9. CASE Daemonize
  BY <1>9 DEF Daemonize, Hold
<1>10. CASE Exits
  BY <1>10 DEF Exits, Hold
<1> QED
  BY <1>1, <1>2, <1>3, <1>4, <1>5, <1>6, <1>7, <1>8, <1>9, <1>10

LEMMA RlStutter ==
    ASSUME RlIInv, UNCHANGED rlVars
    PROVE  RlIInv'
BY DEF RlIInv, RlTypeOK, Lagging, Drained, Latched, rlVars, input, output, window

(* Every variable of the relay stays in its range, and each count lags     *)
(* behind the one before it only where the code is between its two writes. *)
THEOREM RlInductive == RlSpec => []RlIInv
<1>1. RlIInv /\ [RlNext]_rlVars => RlIInv'
  <2> SUFFICES ASSUME RlIInv, [RlNext]_rlVars
               PROVE  RlIInv'
    OBVIOUS
  <2>1. CASE RelayStep
    BY <2>1, RelayKeeps
  <2>2. CASE RlNext /\ ~RelayStep
    BY <2>2, OthersKeep DEF RlNext
  <2>3. CASE UNCHANGED rlVars
    BY <2>3, RlStutter
  <2> QED
    BY <2>1, <2>2, <2>3
<1> QED
  BY RlInitial, <1>1, PTL DEF RlSpec

(* A relay ended by the last close of the slave has shown and logged       *)
(* everything that was written to it (session_relay).                      *)
THEOREM TranscriptIsComplete == RlSpec => []TranscriptComplete
<1>1. RlIInv => TranscriptComplete
  BY DEF RlIInv, Lagging, Drained, TranscriptComplete, After
<1> QED
  BY RlInductive, <1>1, PTL
==============================================================================
