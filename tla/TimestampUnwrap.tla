--------------------------- MODULE TimestampUnwrap ---------------------------
(***************************************************************************)
(* Timestamps of a link whose header has a short rolling counter, made     *)
(* into long ones by HeaderTranslator.translateHdr                         *)
(* (msgtools/lib/header_translator.py:168-194).  The translator counts the *)
(* wraps of the counter: it takes a lower timestamp for a wrap, unless it  *)
(* is little lower, or the system clock says the last wrap was not long    *)
(* ago and the message must be a late one.                                 *)
(*                                                                         *)
(* Times are in the counter's unit, milliseconds; the clocks of the device *)
(* and of the server run at one rate.                                      *)
(***************************************************************************)
EXTENDS Integers

CONSTANTS Max,      (* fromHdrInfo.timeField.maxVal: the counter's last value *)
          Seconds,  (* the lengths of a second that timedelta may be taken to *)
                    (* have, by the units of the headers                      *)
          MaxDelay, (* a message is received within this time                 *)
          MaxLate,  (* ... and is overtaken by messages this much younger     *)
          MaxGap,   (* the device sends again within this time                *)
          MaxTime   (* bound: time                                            *)

Period == Max + 1

(* The thresholds of the code are a tenth and a half of Max. *)
ASSUME TimestampAssumption ==
    /\ Max \in Nat \ {0}
    /\ Seconds \subseteq Nat \ {0}
    /\ MaxDelay \in Nat /\ MaxLate \in Nat /\ MaxGap \in Nat /\ MaxTime \in Nat
    /\ MaxLate <= MaxDelay
    /\ 10 * MaxLate <= Max
    /\ 2 * (MaxLate + MaxGap + MaxDelay) <= Max

Never == -1

VARIABLES second,           (* timedelta takes times of the other header for   *)
                            (* seconds: how long one of these is.  1000 if     *)
                            (* that header, too, counts milliseconds or has no *)
                            (* units, as those of the repository, 1 if it has  *)
                            (* seconds                                         *)
          now,              (* the time, of the device and of the server       *)
          sentAt,           (* when the device sent last                       *)
          flight,           (* the times of the messages on the link           *)
          newest,           (* the youngest message received                   *)
          lastTimestamp,    (* _lastTimestamp                                  *)
          lastWrapTime,     (* _lastWrapTime, or Never                         *)
          timestampOffset,  (* _timestampOffset                                *)
          dated             (* the last message's time, and the one it is given *)

translator_vars ==
    <<second, now, sentAt, flight, newest, lastTimestamp, lastWrapTime, timestampOffset, dated>>

(* The connection is made at some time of the device's first period; the    *)
(* messages it sent before do not come.                                     *)
TranslatorInit == /\ second \in Seconds
                  /\ now \in 0 .. Max
                  /\ sentAt = now
                  /\ flight = {now}
                  /\ newest = Never
                  /\ lastTimestamp = 0
                  /\ lastWrapTime = Never
                  /\ timestampOffset = 0
                  /\ dated = [time |-> 0, given |-> 0]
-----------------------------------------------------------------------------
(* The rolling counter in the header of a message sent at t.                *)
Stamp(t) == t % Period

(* Time passes while no message is due to be received and the device is not *)
(* due to send.                                                             *)
Tick == /\ now < MaxTime
        /\ now < sentAt + MaxGap
        /\ \A t \in flight : now < t + MaxDelay
        /\ now' = now + 1
        /\ UNCHANGED <<second, sentAt, flight, newest, lastTimestamp, lastWrapTime, timestampOffset,
                       dated>>

DeviceSends ==
    /\ sentAt < now
    /\ sentAt' = now
    /\ flight' = flight \cup {now}
    /\ UNCHANGED <<second, now, newest, lastTimestamp, lastWrapTime, timestampOffset, dated>>

(* The code's tests, multiplied to be of integers.                          *)
MuchLower(stamp) == 10 * stamp < 10 * lastTimestamp - Max

(* Slip: the wait is not halved. *)
LongSinceWrapWhole == lastWrapTime = Never \/ now > lastWrapTime + second * Max

LongSinceWrap == lastWrapTime = Never \/ 2 * now > 2 * lastWrapTime + second * Max

(* Slip: the clock is not asked. *)
WrapsUnasked(stamp) == MuchLower(stamp)

Wraps(stamp) == MuchLower(stamp) /\ LongSinceWrap

Given(stamp) == timestampOffset' * Max + stamp

(* A message is received, overtaken at most by those that are MaxLate       *)
(* younger; the first is not overtaken.                                     *)
Receive(t) ==
    LET stamp == Stamp(t)
    IN  /\ t \in flight
        /\ IF newest = Never
           THEN \A u \in flight : t <= u
           ELSE newest <= t + MaxLate
        /\ flight' = flight \ {t}
        /\ newest' = IF t > newest THEN t ELSE newest
        /\ IF Wraps(stamp)
           THEN lastWrapTime' = now /\ timestampOffset' = timestampOffset + 1
           ELSE UNCHANGED <<lastWrapTime, timestampOffset>>
        /\ lastTimestamp' = stamp
        /\ dated' = [time |-> t, given |-> Given(stamp)]
        /\ UNCHANGED <<second, now, sentAt>>

TranslatorNext == Tick \/ DeviceSends \/ \E t \in flight : Receive(t)

TranslatorSpec == TranslatorInit /\ [][TranslatorNext]_translator_vars
-----------------------------------------------------------------------------
(* How often the counter came round before a message sent at t. *)
Round(t) == t \div Period

(***************************************************************************)
(* No wrap is made up: late messages around a wrap, each much lower than   *)
(* the one before it, are never counted as a second one, so that no        *)
(* message in time is dated later than it was sent, by a device whose      *)
(* first round it was when it was connected.  Whatever the units of the    *)
(* headers are (header_translator.py:183-194).                             *)
(***************************************************************************)
NoWrapInvented == newest # Never => /\ timestampOffset <= Round(newest)
                                    /\ dated.time = newest => dated.given <= dated.time

(***************************************************************************)
(* A wrap is missed only while the code waits for the time of its          *)
(* timedelta after the last one it counted: whichever messages come first  *)
(* and last around it, a wrap after that is seen                           *)
(* (header_translator.py:182-191).                                         *)
(***************************************************************************)
MissedOnlyInWait ==
    newest # Never =>
        IF lastWrapTime = Never THEN Round(newest) = 0
        ELSE 2 * Round(newest) * Period <= 2 * lastWrapTime + second * Max

(***************************************************************************)
(* With the other header in seconds that time is half a period, as meant,  *)
(* and every wrap is counted once, in spite of late messages, delays and   *)
(* silences (header_translator.py:161-194).  With the headers of the       *)
(* repository it is not, see CountedAfterHalfPeriod.                       *)
(***************************************************************************)
EveryWrapCounted == second = 1 /\ newest # Never => timestampOffset = Round(newest)

(***************************************************************************)
(* The translator counts the wraps of a device's counter: none that was    *)
(* not, and all but those in the wait; with the other header in seconds    *)
(* all (header_translator.py:161-194).                                     *)
(***************************************************************************)
WrapsCounted == NoWrapInvented /\ MissedOnlyInWait /\ EveryWrapCounted

(***************************************************************************)
(* A timestamp much lower than the last counts as a wrap if the last wrap  *)
(* is more than half the time ago that the counter takes to come round, as *)
(* the comment at header_translator.py:183-187 has it.                     *)
(***************************************************************************)
CountedAfterHalfPeriod ==
    [][\A t \in flight :
          (Receive(t) /\ MuchLower(Stamp(t)) /\ 2 * (now - lastWrapTime) > Period)
              => timestampOffset' = timestampOffset + 1]_translator_vars
=============================================================================
