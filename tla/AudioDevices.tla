---------------------------- MODULE AudioDevices ----------------------------
(***************************************************************************)
(* The choice of the sound devices: TinyPhone::ConfigureAudioDevices and   *)
(* TestAudioDevice (src/tinyphone/phone.cpp).  A device is chosen by the   *)
(* first of the preferred names that its own name contains, and kept by    *)
(* its number in the list, which the system may change at any time.        *)
(***************************************************************************)
EXTENDS Integers, SequencesExt

CONSTANTS
    Preferred,    \* ApplicationConfig.prefferedAudioDevices, a sequence of names
    Lists,        \* the lists of devices the system may have
    UseDefault,   \* ApplicationConfig.useDefaultAudioDevice
    TestDevice    \* ApplicationConfig.testAudioDevice

(* A device: the preferred names that occur in its name, and what it can. *)
Device == [names : SUBSET Range(Preferred), inputs : BOOLEAN, outputs : BOOLEAN]

ASSUME DevicesAssumption ==
    /\ Preferred \in Seq(Range(Preferred))
    /\ Lists \subseteq Seq(Device)
    /\ {UseDefault, TestDevice} \subseteq BOOLEAN

VARIABLES
    devices,  \* the devices of the system
    input,    \* TinyPhone::input_audio_dev
    output    \* TinyPhone::output_audio_dev

deviceVars == <<devices, input, output>>

DevicesTypeOK == devices \in Lists /\ input \in Int /\ output \in Int
DevicesInit == devices \in Lists /\ input = 0 /\ output = 0

(* Variation: a device with a good name is taken whatever it can. *)
PickAny(able, name, chosen) ==
    LET best[i \in 0..Len(devices)] ==
          IF i = 0 THEN chosen
          ELSE IF name \in devices[i].names /\ best[i - 1] <= 0 THEN i - 1
          ELSE best[i - 1]
    IN  best[Len(devices)]

(* One preferred name against every device: what is chosen after i of      *)
(* them.  A choice is final once it is above zero, which device number 0   *)
(* is not.                                                                 *)
Pick(able, name, chosen) ==
    LET best[i \in 0..Len(devices)] ==
          IF i = 0 THEN chosen
          ELSE IF name \in devices[i].names /\ able[i] /\ best[i - 1] <= 0 THEN i - 1
          ELSE best[i - 1]
    IN  best[Len(devices)]

Chosen(able, chosen) ==
    LET best[p \in 0..Len(Preferred)] ==
          IF p = 0 THEN chosen ELSE Pick(able, Preferred[p], best[p - 1])
    IN  best[Len(Preferred)]

Inputs == [i \in DOMAIN devices |-> devices[i].inputs]
Outputs == [i \in DOMAIN devices |-> devices[i].outputs]

(* setCaptureDev and setPlaybackDev, which come last, may throw: the       *)
(* numbers stay.                                                           *)
ConfigureAudioDevices ==
    /\ input' = IF UseDefault THEN -1 ELSE Chosen(Inputs, input)
    /\ output' = IF UseDefault THEN -2 ELSE Chosen(Outputs, output)
    /\ UNCHANGED devices

(* A headset comes or goes. *)
Plug == devices' \in Lists /\ UNCHANGED <<input, output>>

(* TestAudioDevice plays the microphone on the speaker for 50 ms.  It may  *)
(* always fail, and does without devices.                                  *)
DeviceTests == IF ~TestDevice THEN {TRUE} ELSE IF devices = <<>> THEN {FALSE} ELSE BOOLEAN

-----------------------------------------------------------------------------
(* What the configuration asks for: among the devices of the list with the *)
(* ability, the first of those whose name contains the earliest preferred  *)
(* name that any of them contains; -1 if there is none.                    *)
Fits(able, p) == {i \in DOMAIN devices : able[i] /\ Preferred[p] \in devices[i].names}
Best(able) ==
    LET ps == {p \in DOMAIN Preferred : Fits(able, p) # {}}
    IN  IF ps = {} THEN -1 ELSE Min(Fits(able, Min(ps))) - 1

(* A refresh that has no device yet takes the best one, and changes to no  *)
(* device but one that can do it and that the configuration names.  Nothing *)
(* is said of a best device that is number 0, which counts as no device at *)
(* phone.cpp:239 and 243, nor of what a number that is kept has come to    *)
(* stand for.                                                              *)
TakesPreferred(before, after, able) ==
    /\ before <= 0 /\ Best(able) > 0 => after = Best(able)
    /\ after # before => \E p \in DOMAIN Preferred : after + 1 \in Fits(able, p)
=============================================================================
