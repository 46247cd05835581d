------------------------------ MODULE PwmDriver ------------------------------
(***************************************************************************)
(* The PWM driver: a period in comparator 0 and a prescaler, a duty cycle  *)
(* in each of the other comparators, and a configuration register that     *)
(* the driver reads, changes and writes back while the hardware raises     *)
(* interrupt flags in it and takes the one-shot bit away.                  *)
(*                                                                         *)
(* The pins are connected and disconnected in PinMux.                      *)
(***************************************************************************)
EXTENDS Integers, FiniteSetsExt, PowersOfTwo

CONSTANTS
  PwmRates,      \* rates of the parent clock, in Hz
  Freqs,         \* frequencies callers ask for
  Duties,        \* duty cycles they ask for, in percent
  NCmp,          \* comparators, comparator_count
  MaxCount,      \* pwm->max_count, 2^width - 1
  ScaleBits      \* bits of the prescaler field, 4: METAL_PWM_MAXPRESCAL is 15

MaxPrescale == Pow2[ScaleBits] - 1
Channels == 1 .. NCmp - 1

\* A frequency above the clock's rate makes the driver divide by zero: callers
\* ask for none, and the clock is not changed to a rate below the frequency.
ASSUME PwmAssumption ==
  /\ {NCmp, MaxCount, ScaleBits} \subseteq Nat \ {0} /\ MaxCount > 1
  /\ PwmRates \subseteq Nat \ {0} /\ Freqs \subseteq Nat \ {0}
  /\ Duties \subseteq Nat
  /\ \A r \in PwmRates, f \in Freqs : f <= r

VARIABLES
  pwm_rate,      \* the parent clock
  freq,          \* pwm->freq, 0 from enable to the first set_freq
  count_val,     \* pwm->count_val
  duty,          \* pwm->duty[k]
  pwmcmp,        \* PWMCMP[k]
  pwmcfg,        \* PWMCFG: scale (a set of bits), run, center, sticky, ip
  ppc,           \* "idle", or the update of PWMCFG under way
  update,        \* the value that update will write
  pwm_goal,      \* the rate the clock is changing to
  callbacks,     \* how often the driver registered its callbacks, up to 2
  sets,          \* history: times the frequency was set since enable, up to 2
  due,           \* history: the channels whose comparator follows the period
  raised         \* history: flags raised while no update was under way

regs == <<pwmcfg, ppc, update, raised>>
pwmVars == <<pwm_rate, freq, count_val, duty, pwmcmp, regs, pwm_goal,
             callbacks, sets, due>>

Reset == [scale |-> {}, run |-> {}, center |-> {}, sticky |-> FALSE, ip |-> {}]

PwmInit ==
  /\ pwm_rate \in PwmRates /\ pwm_goal = pwm_rate
  /\ freq = 0 /\ count_val = 0
  /\ duty = [k \in Channels |-> 0]
  /\ pwmcmp = [k \in 0 .. NCmp - 1 |-> 0]
  /\ pwmcfg = Reset /\ update = Reset
  /\ ppc = "idle" /\ callbacks = 0 /\ sets = 0 /\ due = {} /\ raised = {}

\* The types of the variables.
PwmTypeOK ==
  /\ pwm_rate \in PwmRates /\ pwm_goal \in PwmRates
  /\ freq \in Nat /\ count_val \in Nat
  /\ duty \in [Channels -> 0 .. 100]
  /\ pwmcmp[0] \in 0 .. MaxCount /\ DOMAIN pwmcmp = 0 .. NCmp - 1
  /\ {pwmcfg.scale, update.scale} \subseteq SUBSET (0 .. ScaleBits - 1)
  /\ ppc \in {"idle", "write", "pre", "post", "forever"}
  /\ callbacks \in 0 .. 2 /\ sets \in 0 .. 2
  /\ due \subseteq Channels /\ raised \subseteq 0 .. NCmp - 1

BitsOf(n) == {b \in 0 .. ScaleBits - 1 : (n \div Pow2[b]) % 2 = 1}

ValueOf(S) == CHOOSE v \in 0 .. MaxPrescale : BitsOf(v) = S

-----------------------------------------------------------------------------
(* Updates of PWMCFG: the word is read and changed, and then written.       *)

\* The read.  A flag the hardware raises before the write is lost by it.
Update(new) == update' = new /\ ppc' = "write" /\ UNCHANGED pwmcfg

\* What a write leaves in the register: without the sticky bit no flag stays.
Written(new) == IF new.sticky THEN new ELSE [new EXCEPT !.ip = {}]

Write ==
  /\ ppc = "write"
  /\ pwmcfg' = Written(update)
  /\ ppc' = "idle" /\ update' = Reset
  /\ UNCHANGED <<pwm_rate, freq, count_val, duty, pwmcmp, pwm_goal, callbacks,
                 sets, due, raised>>

-----------------------------------------------------------------------------
(* The operations.                                                          *)

\* enable writes the whole register and forgets the frequency, but neither the
\* duty cycles nor that the callbacks were registered.
Enable ==
  /\ ppc = "idle"
  /\ pwmcfg' = Reset
  /\ freq' = 0 /\ count_val' = 0
  /\ sets' = 0 /\ due' = {} /\ raised' = {}
  /\ UNCHANGED <<ppc, update, pwm_rate, duty, pwmcmp, pwm_goal, callbacks>>

\* The loop of set_freq: the least prescaler with a count that fits, and one
\* more than the greatest when there is none.
CountAt(r, f, p) == (r \div Pow2[p]) \div f

PrescaleFor(r, f) ==
  LET fits == {p \in 0 .. MaxPrescale : CountAt(r, f, p) <= MaxCount}
  IN IF fits = {} THEN MaxPrescale + 1 ELSE Min(fits)

\* set_freq at clock rate r, on the register's value c: the new value has the
\* bits of the prescaler added to those that were there.
SetFreqFrom(c, r, f) ==
  LET p == PrescaleFor(r, f)
      count == CountAt(r, f, IF p > MaxPrescale THEN MaxPrescale ELSE p)
  IN /\ freq' = (r \div Pow2[p]) \div count
     /\ count_val' = count - 1
     /\ pwmcmp' = [pwmcmp EXCEPT ![0] = (count - 1) % (MaxCount + 1)]
     /\ update' = [c EXCEPT !.scale = @ \cup BitsOf(p)]

SetFreq ==
  /\ ppc = "idle"
  /\ \E f \in Freqs : SetFreqFrom(pwmcfg, pwm_rate, f)
  /\ callbacks' = IF freq = 0 /\ callbacks < 2 THEN callbacks + 1 ELSE callbacks
  /\ sets' = IF sets = 0 THEN 1 ELSE 2
  /\ due' = {} /\ ppc' = "write"
  /\ UNCHANGED <<pwmcfg, pwm_rate, duty, pwm_goal, raised>>

Share(d, n) == (d * n) \div 100

SetDuty ==
  /\ ppc = "idle"
  /\ \E k \in Channels, d \in {d \in Duties : d <= 100}, centre \in BOOLEAN :
       /\ pwmcmp' = [pwmcmp EXCEPT ![k] = Share(d, count_val)]
       /\ duty' = [duty EXCEPT ![k] = d]
       /\ due' = due \cup {k}
       /\ Update([pwmcfg EXCEPT !.center = IF centre THEN @ \cup {k}
                                                     ELSE @ \ {k}])
  /\ UNCHANGED <<pwm_rate, freq, count_val, pwm_goal, callbacks, sets, raised>>

Others == <<pwm_rate, freq, count_val, duty, pwmcmp, pwm_goal, callbacks, sets,
            due>>

Trigger ==
  /\ ppc = "idle"
  /\ \E mode \in {"always", "oneshot"} :
       Update([pwmcfg EXCEPT !.run = @ \cup {mode}])
  /\ UNCHANGED <<Others, raised>>

Stopped(c) == [c EXCEPT !.run = @ \ {"always"}]

Stop ==
  /\ ppc = "idle"
  /\ Update(Stopped(pwmcfg))
  /\ UNCHANGED <<Others, raised>>

CfgInterrupt ==
  /\ ppc = "idle"
  /\ \E on \in BOOLEAN :
       /\ Update([pwmcfg EXCEPT !.sticky = on])
       /\ raised' = IF on THEN raised ELSE {}
  /\ UNCHANGED Others

ClrInterrupt ==
  /\ ppc = "idle"
  /\ \E k \in 0 .. NCmp - 1 :
       /\ Update([pwmcfg EXCEPT !.ip = @ \ {k}])
       /\ raised' = raised \ {k}
  /\ UNCHANGED Others

-----------------------------------------------------------------------------
(* The parent clock changes rate: stop, the change, then the frequency and  *)
(* every duty cycle again.  Nothing starts the outputs again.  A set_freq    *)
(* after a second enable appends the same list node again, which then names  *)
(* itself as its successor: the next change calls it forever.                *)

PwmClockChange ==
  /\ ppc = "idle"
  /\ \E r \in {r \in PwmRates \ {pwm_rate} : freq <= r} :
       /\ pwm_goal' = r
       /\ IF callbacks = 0
            THEN pwm_rate' = r /\ UNCHANGED <<ppc, update>>
            ELSE /\ update' = Stopped(pwmcfg)
                 /\ ppc' = IF callbacks = 1 THEN "pre" ELSE "forever"
                 /\ UNCHANGED pwm_rate
  /\ UNCHANGED <<freq, count_val, duty, pwmcmp, pwmcfg, callbacks, sets, due,
                 raised>>

PreDone ==
  /\ ppc = "pre"
  /\ pwmcfg' = Written(update)
  /\ pwm_rate' = pwm_goal
  /\ IF freq = 0
       THEN /\ ppc' = "idle" /\ update' = Reset
            /\ UNCHANGED <<freq, count_val, pwmcmp, sets, due>>
       ELSE /\ SetFreqFrom(pwmcfg', pwm_goal, freq)
            /\ ppc' = "post" /\ sets' = 2 /\ due' = {}
  /\ UNCHANGED <<duty, pwm_goal, callbacks, raised>>

\* Mutant: the comparators keep the duty cycles of the old period.
PostDone_NoDuties ==
  /\ ppc = "post"
  /\ pwmcfg' = Written(update)
  /\ due' = {k \in Channels : duty[k] # 0}
  /\ ppc' = "idle" /\ update' = Reset
  /\ UNCHANGED <<pwm_rate, freq, count_val, duty, pwmcmp, pwm_goal, callbacks,
                 sets, raised>>

PostDone ==
  /\ ppc = "post"
  /\ pwmcfg' = Written(update)
  /\ pwmcmp' = [k \in 0 .. NCmp - 1 |->
                  IF k # 0 /\ duty[k] # 0 THEN Share(duty[k], count_val)
                                          ELSE pwmcmp[k]]
  /\ due' = {k \in Channels : duty[k] # 0}
  /\ ppc' = "idle" /\ update' = Reset
  /\ UNCHANGED <<pwm_rate, freq, count_val, duty, pwm_goal, callbacks, sets,
                 raised>>

-----------------------------------------------------------------------------
(* The hardware: a comparator matches while the counter runs, and a one-shot *)
(* period ends.                                                             *)

Match(k) ==
  /\ pwmcfg.run # {} /\ pwmcfg.sticky
  /\ k \notin pwmcfg.ip
  /\ pwmcfg' = [pwmcfg EXCEPT !.ip = @ \cup {k}]
  /\ raised' = IF ppc = "idle" THEN raised \cup {k} ELSE raised
  /\ UNCHANGED <<ppc, update, Others>>

ShotEnds ==
  /\ "oneshot" \in pwmcfg.run
  /\ pwmcfg' = [pwmcfg EXCEPT !.run = @ \ {"oneshot"}]
  /\ UNCHANGED <<ppc, update, raised, Others>>

PwmNext ==
  \/ Enable \/ SetFreq \/ SetDuty \/ Trigger \/ Stop \/ CfgInterrupt
  \/ ClrInterrupt \/ PwmClockChange \/ Write \/ PreDone \/ PostDone
  \/ ShotEnds
  \/ \E k \in 0 .. NCmp - 1 : Match(k)

PwmSpec == PwmInit /\ [][PwmNext]_pwmVars

-----------------------------------------------------------------------------
Prescale == ValueOf(pwmcfg.scale)

(* However often the frequency was set since enable, by callers and by      *)
(* changes of the clock, the output is never faster than get_freq reports,  *)
(* although the bits of every prescaler stay in the register (set_freq of   *)
(* sifive_pwm0.c only sets them): for every frequency a prescaler makes     *)
(* fit, and exactly as fast after the first time.  The channels whose duty  *)
(* cycle was set since have that share of the period, also after a change   *)
(* of the clock (set_duty and the post callback).                           *)
OutputOf(p) == (pwm_rate \div Pow2[p]) \div (pwmcmp[0] + 1)

OutputIsAsReported ==
  ppc = "idle" =>
    /\ sets # 0 /\ count_val < MaxCount =>
         \A p \in 0 .. MaxPrescale :
           BitsOf(p) = pwmcfg.scale => OutputOf(p) <= freq
    /\ sets = 1 /\ count_val < MaxCount => freq = OutputOf(Prescale)
    /\ \A k \in due : pwmcmp[k] = Share(duty[k], count_val)

(* A flag raised while no update of the register is under way stays until   *)
(* it is cleared itself, or the latch is switched off: clearing another     *)
(* channel's flag, and every other call, leaves it (clr_interrupt and the   *)
(* other read-change-write updates).  One raised between the read and the   *)
(* write of an update is lost by it: no flag but those.                     *)
FlagsAreKept == raised \subseteq pwmcfg.ip

\* Both: the two things a caller cannot see go wrong in one call.
OutputIsSound == OutputIsAsReported /\ FlagsAreKept
============================================================================
