------------------------------ MODULE Sensors ------------------------------
(***************************************************************************)
(* One cycle of sampling (main.c 278-285): the particle counter OPC-N3,    *)
(* which is switched on, read and switched off by five commands over SPI   *)
(* (opc_n3.c); the seven channels of the gas sensor board behind one A/D   *)
(* converter (ads124s08.c); and the Chipcap2 (chipcap2.c).  Every transfer *)
(* can fail, and the counter may not answer at all.  The buffers are       *)
(* static, so what a cycle does not overwrite is there in the next one.    *)
(* A value is abstracted to where it comes from.  NodeMain adds the main   *)
(* loop and the time that every step takes.                                *)
(***************************************************************************)
EXTENDS Integers

CONSTANTS OpcPolls,   \* polls of an OPC command that are followed by a sleep
          Channels    \* channels of the A/D converter that are sampled

ASSUME SensorsAssumption == OpcPolls \in Nat /\ Channels \in Nat \ {0}

\* The five commands of opc_sample(), in their order.
FanOn == 1   LaserOn == 2   ReadHistogram == 3   LaserOff == 4   FanOff == 5

\* Where a value comes from: nowhere (cleared), a reading of this cycle or of
\* an earlier one, or a transfer that failed half-way.
Origin == {"zero", "now", "earlier", "broken"}

VARIABLES
  stage,      \* the sensor that is sampled: "idle", "opc", "adc", "cc2"
  command,    \* the command of opc_sample() that is sent
  polls,      \* retryCount of OPC_command()
  fan, laser, \* the counter's peripherals: on?
  histogram,  \* the buffer the histogram is read into
  opcSample,  \* current of opc_n3.c: its data and its valid flag
  channel,    \* the channel that is sampled
  mux,        \* the converter's input
  converted,  \* the channel of its last conversion, if that was in this cycle
  afe,        \* current of ads124s08.c: the same for every field
  cc2,        \* current of chipcap2.c: from this cycle?
  faults      \* history: "opc", "adc" if they failed since the cycle began

sensors == <<stage, command, polls, fan, laser, histogram, opcSample, channel,
             mux, converted, afe, cc2, faults>>
opcVars == <<command, polls, fan, laser, histogram, opcSample>>
adcVars == <<channel, mux, converted, afe>>

\* A conversion is named by its channel; 0 is a failed read or an old value.
Conversion == 0 .. Channels

SensorsTypeOK ==
  /\ stage \in {"idle", "opc", "adc", "cc2"}
  /\ command \in FanOn .. FanOff /\ polls \in 0 .. OpcPolls
  /\ fan \in BOOLEAN /\ laser \in BOOLEAN
  /\ histogram \in Origin
  /\ opcSample \in [data : Origin, valid : BOOLEAN]
  /\ channel \in 1 .. Channels /\ mux \in 0 .. Channels
  /\ converted \in Conversion /\ afe \in [1 .. Channels -> Conversion]
  /\ cc2 \in BOOLEAN
  /\ faults \subseteq {"opc", "adc"}

\* RAM after a reset of the CPU; the sensors keep their power and their state.
StaticsCleared ==
  /\ stage' = "idle" /\ command' = FanOn /\ polls' = 0
  /\ histogram' = "zero" /\ opcSample' = [data |-> "zero", valid |-> FALSE]
  /\ channel' = 1 /\ afe' = [c \in 1 .. Channels |-> 0]
  /\ cc2' = FALSE
  /\ UNCHANGED <<fan, laser, mux, converted, faults>>

SensorsInit ==
  /\ stage = "idle" /\ command = FanOn /\ polls = 0
  /\ histogram = "zero" /\ opcSample = [data |-> "zero", valid |-> FALSE]
  /\ channel = 1 /\ afe = [c \in 1 .. Channels |-> 0]
  /\ cc2 = FALSE
  /\ fan = FALSE /\ laser = FALSE /\ mux = 0 /\ converted = 0
  /\ faults = {}

Aged(o) == IF o = "zero" THEN o ELSE "earlier"

(***************************************************************************)
(* A cycle begins: nothing is cleared, what is there becomes old.          *)
(***************************************************************************)
SampleStart ==
  /\ stage' = "opc" /\ command' = FanOn /\ polls' = 0
  /\ histogram' = Aged(histogram)
  /\ opcSample' = [opcSample EXCEPT !.data = Aged(@)]
  /\ channel' = 1
  /\ converted' = 0 /\ afe' = [c \in 1 .. Channels |-> 0]
  /\ cc2' = FALSE
  /\ faults' = {}
  /\ UNCHANGED <<fan, laser, mux>>

---------------------------------------------------------------------------
\* The checksum of a histogram: that of a cleared buffer is not 0.
ChecksumOK(h) == h \in {"now", "earlier"}

\* decode_historgram(OPC_OK == opc_sample()), where OPC_OK is 0 and
\* opc_sample() returns whether the checksum is right.
DecodeHistogram(h) == [data |-> h, valid |-> ~ ChecksumOK(h)]

\* (mutated) the buffer is not cleared
BufferKept(h) == h

\* The buffer h when the next command begins: it is cleared before the one
\* that reads it.
Buffer(h) == IF command + 1 = ReadHistogram THEN "zero" ELSE h

\* OPC_command() returned, with h in the buffer and whether all went well;
\* its result is ignored and the next one is sent.
CommandEnds(h, ok) ==
  /\ polls' = 0
  /\ faults' = IF ok THEN faults ELSE faults \cup {"opc"}
  /\ IF command = FanOff
     THEN /\ opcSample' = DecodeHistogram(h)
          /\ histogram' = h
          /\ stage' = "adc" /\ command' = FanOn
     ELSE /\ command' = command + 1
          /\ histogram' = Buffer(h)
          /\ UNCHANGED <<stage, opcSample>>
  /\ UNCHANGED <<adcVars, cc2>>

\* (mutated) the polls are not counted
OpcBusyForever ==
  /\ stage = "opc"
  /\ UNCHANGED <<sensors>>

\* The counter is not ready: sleep and poll again.
OpcBusy ==
  /\ stage = "opc" /\ polls < OpcPolls
  /\ polls' = polls + 1
  /\ UNCHANGED <<stage, command, fan, laser, histogram, opcSample, adcVars,
                 cc2, faults>>

\* The counter never became ready.
OpcGivesUp ==
  /\ stage = "opc" /\ polls = OpcPolls
  /\ CommandEnds(histogram, FALSE)
  /\ UNCHANGED <<fan, laser>>

\* The counter is ready and gets the option or sends the histogram; a byte
\* may be lost on the way, which is only logged.
OpcAnswers ==
  /\ stage = "opc"
  /\ \E ok \in BOOLEAN :
       /\ CommandEnds(IF command # ReadHistogram THEN histogram
                      ELSE IF ok THEN "now" ELSE "broken", ok)
       /\ fan' = IF ok /\ command \in {FanOn, FanOff} THEN command = FanOn
                 ELSE fan
       /\ laser' = IF ok /\ command \in {LaserOn, LaserOff}
                   THEN command = LaserOn ELSE laser

---------------------------------------------------------------------------
\* sampleChannel(): select the input, convert, read; the value is used
\* whatever the status byte says.  Each of the three can fail.
ConfigureAdc(selected, ran) ==
  /\ mux' = IF selected THEN channel ELSE mux
  /\ converted' = IF ran THEN mux' ELSE converted

AdcChannel ==
  /\ stage = "adc"
  /\ \E selected, ran, read \in BOOLEAN :
       /\ ConfigureAdc(selected, ran)
       /\ afe' = [afe EXCEPT ![channel] = IF read THEN converted' ELSE 0]
       /\ faults' = IF selected /\ ran /\ read THEN faults
                    ELSE faults \cup {"adc"}
  /\ IF channel = Channels THEN stage' = "cc2" /\ channel' = 1
     ELSE channel' = channel + 1 /\ UNCHANGED stage
  /\ UNCHANGED <<opcVars, cc2>>

\* cc2_sample_data(): after a failing read the old sample stays.
Cc2Sample ==
  /\ stage = "cc2" /\ stage' = "idle"
  /\ cc2' \in {TRUE, cc2}
  /\ UNCHANGED <<opcVars, adcVars, faults>>

\* mb_encode(): what the message says, field by field; its time and version
\* are left out, and its position is in Gps.
MbEncode == [opc |-> opcSample.data, opc_sample_valid |-> opcSample.valid,
             sensor |-> afe, board |-> cc2]
=============================================================================
