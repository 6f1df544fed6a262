------------------------------ MODULE HpsControl ------------------------------
(***************************************************************************)
(* The hps_control register of the bridge and everybody who writes it:     *)
(* Main's backend (host/main_mistex_pcie/fpga_io_pcie.cpp), which keeps a  *)
(* shadow of it and writes the whole register, a tool that presses the     *)
(* buttons with tools/csrw.py, and the loading of a bitstream.             *)
(*                                                                         *)
(* A register value is the set of its bits that are 1.  Every access of    *)
(* the register is a step of its own.                                      *)
(***************************************************************************)
EXTENDS Naturals, Sequences

CONSTANTS Masks,       \* sets of enables that fpga_spi_en is called with
          Buttons,     \* the btn_* bits
          MaxCrashes, MaxLoads, MaxPresses  \* bounds

Enables == {"fpga_en", "osd_en", "io_en"}
Reset == "core_reset"
Bits == Enables \cup {Reset} \cup Buttons

ASSUME ControlAssumption ==
    /\ \A m \in Masks : m \subseteq Enables
    /\ Buttons \subseteq {"btn_osd", "btn_user"}
    /\ {MaxCrashes, MaxLoads, MaxPresses} \subseteq Nat

VARIABLES
    control,            \* the register
    \* Main
    alive, csr_ok, control_shadow,
    todo,               \* the register accesses left of the call being made
    buttons,            \* what fpga_get_buttons returned last
    \* the tool
    read,               \* the value csrw read, while it is being edited: <<>> or <<value>>
    held,               \* the buttons the tool's user holds down
    \* the bounds
    crashes, loads, presses,
    \* history, for the properties only
    writer,             \* who wrote the register last
    abandoned           \* a process died with the core in reset, none has opened the card since

main == <<alive, csr_ok, control_shadow, todo, buttons>>
tool == <<read, held, presses>>
bounds == <<crashes, loads>>
vars == <<control, main, tool, bounds, writer, abandoned>>

Init ==
    /\ control = {Reset} /\ writer = "load"
    /\ alive = FALSE /\ csr_ok = FALSE /\ control_shadow = {} /\ todo = <<>>
    /\ buttons = {}
    /\ read = <<>> /\ held = {} /\ presses = 0
    /\ crashes = 0 /\ loads = 0 /\ abandoned = FALSE

WriteControl(value, who) == control' = value /\ writer' = who

-----------------------------------------------------------------------------
(* Main *)

\* A process begins: its statics are zero.
Begin ==
    /\ alive' = TRUE /\ csr_ok' = FALSE /\ control_shadow' = {} /\ todo' = <<>>
    /\ buttons' = {}
    /\ UNCHANGED <<control, tool, bounds, writer, abandoned>>

Start == ~alive /\ Begin

\* Slip: the register is left as it is found.
IoInitQuiet ==
    /\ alive /\ ~csr_ok /\ todo = <<>>
    /\ csr_ok' = TRUE
    /\ control_shadow' = {}
    /\ abandoned' = FALSE
    /\ UNCHANGED <<control, writer, alive, todo, buttons, tool, bounds>>

\* fpga_io_init that finds its csr.csv and opens the device.
IoInit ==
    /\ alive /\ ~csr_ok /\ todo = <<>>
    /\ csr_ok' = TRUE
    /\ control_shadow' = {}
    /\ WriteControl({}, "main")
    /\ abandoned' = FALSE
    /\ UNCHANGED <<alive, todo, buttons, tool, bounds>>

\* fpga_spi_en: the shadow always, the register when it is open.
SpiEn(mask, en) ==
    /\ alive /\ todo = <<>>
    /\ control_shadow' = IF en THEN control_shadow \cup mask ELSE control_shadow \ mask
    /\ IF csr_ok THEN WriteControl(control_shadow', "main") ELSE UNCHANGED <<control, writer>>
    /\ UNCHANGED <<alive, csr_ok, todo, buttons, tool, bounds, abandoned>>

GetButtons ==
    /\ alive /\ todo = <<>>
    /\ buttons' = IF csr_ok THEN control \cap Buttons ELSE {}
    /\ UNCHANGED <<control, alive, csr_ok, control_shadow, todo, tool, bounds, writer, abandoned>>

CoreReset == <<"set", "clear">>
Reboot == CoreReset \o <<"exit">>
AppRestart == CoreReset \o <<"exec">>
LoadRbf(config) == (IF config THEN CoreReset ELSE <<>>) \o AppRestart

Call(procedure) ==
    /\ alive /\ todo = <<>>
    /\ todo' = procedure
    /\ UNCHANGED <<control, alive, csr_ok, control_shadow, buttons, tool, bounds, writer, abandoned>>

\* Slip: the shadow keeps the bit.
ResetStepShadow ==
    /\ alive /\ todo # <<>> /\ Head(todo) \in {"set", "clear"}
    /\ todo' = Tail(todo)
    /\ IF csr_ok
       THEN /\ control_shadow' = control_shadow \cup {Reset}
            /\ WriteControl(IF Head(todo) = "set" THEN control_shadow' ELSE control_shadow \ {Reset}, "main")
       ELSE UNCHANGED <<control, writer, control_shadow>>
    /\ UNCHANGED <<alive, csr_ok, buttons, tool, bounds, abandoned>>

\* fpga_core_reset: set the bit, sleep, clear it; nothing when not open.
ResetStep ==
    /\ alive /\ todo # <<>> /\ Head(todo) \in {"set", "clear"}
    /\ todo' = Tail(todo)
    /\ IF csr_ok
       THEN /\ control_shadow' = IF Head(todo) = "set" THEN control_shadow \cup {Reset}
                                 ELSE control_shadow \ {Reset}
            /\ WriteControl(control_shadow', "main")
       ELSE UNCHANGED <<control, writer, control_shadow>>
    /\ UNCHANGED <<alive, csr_ok, buttons, tool, bounds, abandoned>>

\* The process ends, and with it everything it knew.
End ==
    /\ alive' = FALSE /\ csr_ok' = FALSE /\ control_shadow' = {} /\ todo' = <<>>
    /\ buttons' = {}
    /\ UNCHANGED <<control, tool, writer>>

\* exit(0) of reboot, exit(1) of an app_restart whose execl failed.
Exit == /\ alive /\ todo # <<>> /\ Head(todo) \in {"exit", "exec"}
        /\ End
        /\ UNCHANGED <<bounds, abandoned>>

\* execl of app_restart.
Exec == alive /\ todo # <<>> /\ Head(todo) = "exec" /\ Begin

Crash ==
    /\ alive /\ crashes < MaxCrashes
    /\ crashes' = crashes + 1
    /\ End
    /\ abandoned' = (abandoned \/ Reset \in control_shadow)
    /\ UNCHANGED loads

-----------------------------------------------------------------------------
(* The others *)

\* A bitstream is loaded: the register takes its reset value.
LoadBitstream ==
    /\ loads < MaxLoads
    /\ loads' = loads + 1
    /\ WriteControl({Reset}, "load")
    /\ UNCHANGED <<main, tool, crashes, abandoned>>

\* csrw.py read hps_control
ToolRead ==
    /\ read = <<>> /\ (held # {} \/ presses < MaxPresses)
    /\ read' = <<control>>
    /\ UNCHANGED <<control, main, held, presses, bounds, writer, abandoned>>

\* csrw.py write hps_control, with a button added to what was read or taken out.
ToolPress(b) ==
    /\ read # <<>> /\ b \notin held /\ presses < MaxPresses
    /\ WriteControl(read[1] \cup {b}, "tool")
    /\ held' = held \cup {b} /\ presses' = presses + 1 /\ read' = <<>>
    /\ UNCHANGED <<main, bounds, abandoned>>

ToolRelease(b) ==
    /\ read # <<>> /\ b \in held
    /\ WriteControl(read[1] \ {b}, "tool")
    /\ held' = held \ {b} /\ read' = <<>>
    /\ UNCHANGED <<main, presses, bounds, abandoned>>

-----------------------------------------------------------------------------

Procedures == {CoreReset, Reboot, AppRestart, LoadRbf(TRUE), LoadRbf(FALSE)}

MainStep == \/ Start \/ IoInit \/ GetButtons \/ ResetStep \/ Exit \/ Exec
            \/ \E m \in Masks, en \in BOOLEAN : SpiEn(m, en)
            \/ \E p \in Procedures : Call(p)

Next == \/ MainStep \/ Crash \/ LoadBitstream \/ ToolRead
        \/ \E b \in Buttons : ToolPress(b) \/ ToolRelease(b)

Spec == Init /\ [][Next]_vars

\* A process that ended is started again and opens the card; a call that was
\* begun is finished; Main goes on exchanging words.
FairSpec == /\ Spec
            /\ WF_vars(Start) /\ SF_vars(IoInit) /\ WF_vars(ResetStep) /\ WF_vars(Exit \/ Exec)
            /\ \A m \in Masks : SF_vars(SpiEn(m, FALSE))

-----------------------------------------------------------------------------
(* Properties *)

\* The register is what Main believes it to be, unless somebody else wrote it
\* after Main: a process never works with the levels of the one before it.
ShadowTrue == csr_ok /\ writer = "main" => control = control_shadow

\* The core is in reset only while a process is resetting it, or if a process
\* died doing so, nobody has opened the card since it was loaded, or a tool
\* wrote a reset back that it had read.
ResetExplained ==
    Reset \in control =>
        \/ writer \in {"load", "tool"}
        \/ abandoned
        \/ csr_ok /\ todo # <<>> /\ Head(todo) = "clear"

\* However often it is reset, abandoned, loaded or meddled with, the core runs
\* again while processes are started and use the bridge.
CoreRuns == []<>(Reset \notin control)

-----------------------------------------------------------------------------
(* What the documentation says of the buttons, checked as it stands *)

\* fpga_io_pcie.cpp:185 "A host-side tool may set the btn_* bits in
\* hps_control": a button that the tool holds is seen when Main looks.
ButtonSeen == [][GetButtons /\ csr_ok => held \subseteq buttons']_vars
=============================================================================
