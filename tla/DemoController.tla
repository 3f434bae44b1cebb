--------------------------- MODULE DemoController ---------------------------
(***************************************************************************)
(* The controller at the far end of the configurator's link, as the demo   *)
(* transport implements it: MockSerial with the mocks of each feature, and *)
(* the storage simulator around it.  One line in, one reply out.  The demo *)
(* board has no IMU; a board that has one calibrates it as the firmware's  *)
(* sensor commands do.                                                     *)
(*                                                                         *)
(* A setting is a number; the settings modelled are one of each kind the   *)
(* pages treat differently.  A reply keeps what the pages tell apart: its  *)
(* kind and the value it carries.                                          *)
(***************************************************************************)
EXTENDS Naturals

Keys == {"lpf", "expo", "center", "cutoff", "rpm", "poles", "direction", "rate", "dshot", "map", "range", "mode",
         "accel", "roll", "yaw", "power"}
\* what firmware before schemas 7 to 10 does not know
Later == {"center", "cutoff", "rpm", "poles", "direction", "rate", "roll", "yaw"}

\* A line: what it does, the setting and value it names, and its class in the gate (a "held"
\* line is the next one of a request that already owns the gate).
Line(op, key, val, cls) == [op |-> op, key |-> key, val |-> val, cls |-> cls]
Get(k)    == Line("get", k, 0, "normal")
Set(k, v) == Line("set", k, v, "write")
Read(k)   == Line("read", k, 0, "normal")
Held(l)   == [l EXCEPT !.cls = "held"]

Reply(kind, val, c) == [kind |-> kind, val |-> val, to |-> c]

\* the board's orientation, of two of its three axes
Mounting(ram) == ram["roll"] + (2 * ram["yaw"])

\* state, as it is after power-up; backend: it has flash and an IMU
Booted(id, knows, flash, limit, stored) ==
  [id |-> id, knows |-> knows, backend |-> flash, limit |-> limit,
   ram |-> stored, flash |-> stored, dirty |-> FALSE,
   boot |-> stored["rate"], target |-> stored["rate"], armed |-> FALSE, spin |-> FALSE,
   mount |-> Mounting(stored), cal |-> 0]

Defaults == [k \in Keys |-> 0]

Stores(c, k, v) == Reply("ok", v, [c EXCEPT !.ram[k] = v, !.dirty = TRUE])
\* A set that is refused has still marked the storage dirty.
Refuses(c, kind) == Reply(kind, 0, [c EXCEPT !.dirty = TRUE])

\* the motor bench: dshot, motor_test, motor_pulse and motor_seq
BenchHandle(c, line) ==
  IF line.op = "set" THEN IF c.armed \/ c.spin THEN Refuses(c, "refused") ELSE Stores(c, "dshot", line.val)
  ELSE IF line.op = "stop" THEN Reply("ok", 0, [c EXCEPT !.spin = FALSE])
  ELSE IF c.armed THEN Reply("refused", 0, c) ELSE Reply("ok", 0, [c EXCEPT !.spin = TRUE])

DirectionHandle(c, v) ==
  IF c.armed THEN Refuses(c, "refused")
  ELSE IF "direction" \notin c.knows THEN Refuses(c, "unknown")
  ELSE IF c.spin THEN Refuses(c, "refused") ELSE Stores(c, "direction", v)

\* The pair rule: an enabled notch has its cutoff above zero and below its center.
PairValid(center, cutoff) == center = 0 \/ (cutoff > 0 /\ cutoff < center)

NotchHandle(c, k, v) ==
  IF c.armed THEN Refuses(c, "refused")
  ELSE IF k \notin c.knows THEN Refuses(c, "unknown")
  ELSE LET pair == [c.ram EXCEPT ![k] = v]
       IN IF ~PairValid(pair["center"], pair["cutoff"]) THEN Refuses(c, "pair")
          ELSE IF k = "center" /\ v >= c.limit THEN Refuses(c, "refused") ELSE Stores(c, k, v)

RpmHandle(c, k, v) ==
  IF c.armed THEN Refuses(c, "refused")
  ELSE IF k \notin c.knows THEN Refuses(c, "unknown") ELSE Stores(c, k, v)

LoopRateHandle(c, v) ==
  IF c.armed THEN Refuses(c, "refused")
  ELSE IF "rate" \notin c.knows THEN Refuses(c, "unknown") ELSE Stores(c, "rate", v)

ReceiverHandle(c, v) == IF c.armed \/ c.spin THEN Refuses(c, "refused") ELSE Stores(c, "map", v)

\* the receiver report: the channel map, and whether it may be changed now
ReceiverReport(c) == Reply(IF c.armed \/ c.spin THEN "driven" ELSE "idle", c.ram["map"], c)

\* the modes report: the ARM range and the control mode, and whether they may be changed now
ModesValue(ram) == ram["range"] + (2 * ram["mode"])
ModesReport(c) == Reply(IF c.armed \/ c.spin THEN "driven" ELSE "idle", ModesValue(c.ram), c)
\* mode_range and control_mode answer with the report of what is then set
ModesHandle(c, k, v) == IF c.armed \/ c.spin THEN Refuses(c, "refused") ELSE ModesReport(Stores(c, k, v).to)

\* the battery report; power_config answers with it
PowerReport(c) == IF c.backend THEN Reply("power", c.ram["power"], c) ELSE Reply("unknown", 0, c)
PowerHandle(c, v) ==
  IF ~c.backend THEN Refuses(c, "unknown")
  ELSE IF c.armed \/ c.spin THEN Reply("refused", 0, c) ELSE PowerReport(Stores(c, "power", v).to)

\* the status report: armed or not, and the rate that runs
StatusReply(c) == Reply(IF c.armed THEN "armed" ELSE "disarmed", c.target, c)

-----------------------------------------------------------------------------
(* The IMU: cal is the manual session, 0 none, 1 gyro, 2 level, 3 waiting  *)
(* for a face, 4 collecting one, 5 waiting with all six captured.          *)

Remounted(c) == c.mount # Mounting(c.ram)

\* the sensors report
SensorsValue(c) == c.cal + (6 * c.ram["accel"]) + (12 * Mounting(c.ram)) + (IF Remounted(c) THEN 48 ELSE 0)
SensorsReport(c) ==
  IF "sensors" \notin c.knows THEN Reply("unknown", 0, c)
  ELSE IF ~c.backend THEN Reply("noimu", SensorsValue(c), c)
  ELSE Reply(IF c.armed \/ c.spin THEN "driven" ELSE "idle", SensorsValue(c), c)

\* calibration_allowed(), and the session each command needs
CalibrationAllowed(c, what) ==
  /\ c.backend /\ ~c.armed /\ ~c.spin /\ ~Remounted(c)
  /\ CASE what = "face" -> c.cal \in {3, 5} [] what = "apply" -> c.cal = 5 [] OTHER -> c.cal = 0

\* the six faces agree: the correction is applied
Corrects(c) == [c EXCEPT !.cal = 0, !.ram["accel"] = 1, !.dirty = TRUE]

CalibrationHandle(c, what) ==
  IF what = "cancel" THEN {Reply("ok", 0, [c EXCEPT !.cal = 0])}
  ELSE IF ~CalibrationAllowed(c, what) THEN {Reply("refused", 0, c)}
  ELSE IF what = "apply" THEN {Reply("ok", 0, Corrects(c)), Reply("refused", 0, c)}
  ELSE {Reply("ok", 0, [c EXCEPT !.cal = CASE what = "gyro" -> 1 [] what = "level" -> 2
                                           [] what = "start" -> 3 [] what = "face" -> 4])}

\* a window of samples is complete; or the session fails, times out or loses its client
Calibrates(c) ==
  CASE c.cal = 0 -> {}
    [] c.cal = 2 -> {Corrects(c), [c EXCEPT !.cal = 0]}
    [] c.cal = 4 -> {[c EXCEPT !.cal = to] : to \in {0, 3, 5}}
    [] OTHER -> {[c EXCEPT !.cal = 0]}

\* cmd_set() of an align_board key
MountHandle(c, k, v) ==
  IF c.armed \/ c.spin \/ c.cal # 0 THEN Reply("refused", 0, c)
  ELSE IF k \notin c.knows THEN Reply("unknown", 0, c) ELSE Stores(c, k, v)

-----------------------------------------------------------------------------
SetHandle(c, k, v) ==
  CASE k = "direction" -> DirectionHandle(c, v)
    [] k \in {"center", "cutoff"} -> NotchHandle(c, k, v)
    [] k \in {"rpm", "poles"} -> RpmHandle(c, k, v)
    [] k = "rate" -> LoopRateHandle(c, v)
    [] k = "map" -> ReceiverHandle(c, v)
    [] k \in {"range", "mode"} -> ModesHandle(c, k, v)
    [] k \in {"roll", "yaw"} -> MountHandle(c, k, v)
    [] k = "power" -> PowerHandle(c, v)
    [] k = "dshot" -> BenchHandle(c, Set(k, v))
    [] OTHER -> Stores(c, k, v)

GetHandle(c, k) == IF k \in c.knows THEN Reply("value", c.ram[k], c) ELSE Reply("unknown", 0, c)

\* the loop_rate report: the boot setting and, as its reason, the rate that runs
LoopReport(c) == Reply("report", c.target, c)

\* storage: only the simulator answers it.  The value: 1 clean, 2 dirty; and 2 more while the
\* controller is armed, tests motors or calibrates.
StorageReply(c) ==
  IF ~c.backend THEN Reply("unknown", 0, c)
  ELSE Reply("storage", (IF c.dirty THEN 2 ELSE 1) + (IF c.armed \/ c.spin \/ c.cal # 0 THEN 2 ELSE 0), c)

\* save: the demo board acknowledges what it cannot keep; a flash write is verified or fails.
SaveReplies(c) ==
  IF ~c.backend THEN {Reply("unverified", 0, c)}
  ELSE {Reply("verified", 0, [c EXCEPT !.flash = c.ram, !.dirty = FALSE]),
        Reply("unverified", 0, [c EXCEPT !.dirty = TRUE])}

DefaultsHandle(c) ==
  Reply("ok", 0, [c EXCEPT !.ram = [k \in Keys |-> IF k \in {"dshot", "map", "accel", "power"} THEN c.ram[k] ELSE 0],
                           !.dirty = TRUE])

\* handleLine() and the simulator's line() in front of it
Replies(c, line) ==
  CASE line.op = "status" -> {StatusReply(c)}
    [] line.op = "get" -> {GetHandle(c, line.key)}
    [] line.op = "set" -> {SetHandle(c, line.key, line.val)}
    [] line.op \in {"start", "stop"} -> {BenchHandle(c, line)}
    [] line.op = "receiver" -> {ReceiverReport(c)}
    [] line.op = "modes" -> {ModesReport(c)}
    [] line.op = "power" -> {PowerReport(c)}
    [] line.op = "sensors" -> {SensorsReport(c)}
    [] line.op = "calibrate" -> CalibrationHandle(c, line.key)
    [] line.op = "looprate" -> {LoopReport(c)}
    [] line.op = "storage" -> {StorageReply(c)}
    [] line.op = "save" -> SaveReplies(c)
    [] line.op = "defaults" -> {DefaultsHandle(c)}
    [] OTHER -> {Reply("text", 0, c)}

\* The one-second window of a bench test ends; a runtime fallback lowers the loop rate; the
\* pilot arms or disarms by radio, which ends a calibration; the cable is pulled, and with it goes
\* everything it kept going.
PulseEnds(c) == [c EXCEPT !.spin = FALSE]
FallsBack(c) == [c EXCEPT !.target = 0]
Toggles(c)   == [c EXCEPT !.armed = ~c.armed, !.spin = FALSE, !.cal = 0]
Unplugged(c) == [c EXCEPT !.spin = FALSE, !.cal = 0]
=============================================================================
