----------------------------- MODULE ModeSwitch -----------------------------
(***************************************************************************)
(* Which of the two USB devices OmniPortal is, and which one it believes   *)
(* to be.  The USB task reads the mode once, at boot (usb/device.rs); the  *)
(* web page changes it in the catalog and in the journal, and asks for a   *)
(* restart with one flag (usb/mod.rs).  Format and compaction rewrite the  *)
(* record, or lose it.                                                     *)
(***************************************************************************)
EXTENDS Naturals

CONSTANT Failures  \* may erases fail, and appends fail, be cut short or be refused?

Modes == {"skylanders", "infinity"}

\* GameLine::Skylanders, which a scan without a configuration record yields.
DefaultMode == "skylanders"

ASSUME ModeAssumption == Failures \in BOOLEAN

VARIABLES
  usbMode,    \* Catalog.usb_mode, in RAM: what the web page shows
  durable,    \* the mode the next boot scan finds
  running,    \* the device the USB task is
  rebooting,  \* REBOOT_AFTER_FLUSH_REQUESTED
  parted,     \* since the last boot, an error or a format parted the three modes
  hidden      \* the next boot scan stops before the place of the next append:
              \* at a torn record, or where a failed erase began

modeVars == <<usbMode, durable, running, rebooting, parted, hidden>>

ModeTypeOK ==
  /\ usbMode \in Modes /\ durable \in Modes /\ running \in Modes
  /\ rebooting \in BOOLEAN /\ parted \in BOOLEAN /\ hidden \in BOOLEAN

ModeInit ==
  /\ durable \in Modes /\ usbMode = durable /\ running = durable
  /\ rebooting = FALSE /\ parted = FALSE
  /\ hidden \in BOOLEAN /\ (hidden => Failures)

-----------------------------------------------------------------------------
(***************************************************************************)
(* POST /api/mode/set.  The mode changes in RAM before the append, and     *)
(* stays changed when the append is refused; a restart is asked for only   *)
(* when the request succeeded and changed the mode in RAM.  A record that  *)
(* is appended behind a torn one is there, but the next boot does not look *)
(* for it.                                                                 *)
(***************************************************************************)
AlreadySet(m) == usbMode = m /\ UNCHANGED modeVars

Found(m) == IF hidden THEN durable ELSE m

Switch(m) ==
  /\ usbMode # m /\ usbMode' = m /\ durable' = Found(m)
  /\ rebooting' = TRUE /\ parted' = FALSE
  /\ UNCHANGED <<running, hidden>>

SwitchRefused(m) ==
  /\ Failures /\ usbMode # m /\ usbMode' = m /\ parted' = TRUE
  /\ UNCHANGED <<durable, running, rebooting, hidden>>

\* Mutant of SetUsbMode: the request for a restart is forgotten.
SetUsbModeAndStay(m) ==
  \/ AlreadySet(m) \/ SwitchRefused(m)
  \/ /\ usbMode # m /\ usbMode' = m /\ durable' = Found(m)
     /\ parted' = FALSE /\ UNCHANGED <<running, rebooting, hidden>>

\* Mutant of SetUsbMode: every success asks for a restart.
SetUsbModeRestarts(m) ==
  \/ Switch(m) \/ SwitchRefused(m)
  \/ /\ usbMode = m /\ rebooting' = TRUE
     /\ UNCHANGED <<usbMode, durable, running, parted, hidden>>

SetUsbMode(m) == AlreadySet(m) \/ Switch(m) \/ SwitchRefused(m)

-----------------------------------------------------------------------------
(***************************************************************************)
(* Format: the new catalog, and the journal, have the default mode, and    *)
(* nobody restarts the USB task.  A failed erase leaves RAM alone, and may *)
(* have lost the record; a whole one takes torn records away.              *)
(***************************************************************************)
Format ==
  \/ /\ usbMode' = DefaultMode /\ durable' = DefaultMode
     /\ parted' = (running # DefaultMode /\ ~rebooting)
     /\ hidden' = FALSE /\ UNCHANGED <<running, rebooting>>
  \/ /\ Failures /\ durable' \in {durable, DefaultMode} /\ parted' = TRUE
     /\ hidden' \in BOOLEAN /\ UNCHANGED <<usbMode, running, rebooting>>

\* Compaction writes the mode of RAM, last of all.  A failure after the erase
\* leaves the default mode on flash, and in RAM too unless it is the append
\* of the configuration itself that fails.
Compact ==
  \/ /\ durable' = usbMode /\ hidden' = FALSE
     /\ UNCHANGED <<usbMode, running, rebooting, parted>>
  \/ /\ Failures /\ durable' \in {durable, DefaultMode}
     /\ usbMode' \in {usbMode, DefaultMode} /\ parted' = TRUE
     /\ hidden' \in BOOLEAN /\ UNCHANGED <<running, rebooting>>

\* storage::init, then usb::run: the mode of the journal is taken over.  An
\* append, of any record, that failed or was cut short shows only now: the scan
\* stops there, and appends go on behind it.
Boot ==
  /\ usbMode' = durable /\ running' = durable
  /\ rebooting' = FALSE /\ parted' = FALSE
  /\ hidden' \in BOOLEAN /\ (hidden' => Failures)
  /\ UNCHANGED durable

-----------------------------------------------------------------------------
(***************************************************************************)
(* Properties.                                                             *)
(***************************************************************************)
\* Unless an error or a format parted them since the last boot, the mode on the
\* page is the one the console sees or is about to see; and it is the mode of
\* the next boot as well, unless the journal has a torn record or the hole of
\* a failed erase before the place where records are appended.
ModesAgree ==
  ~parted => /\ ~hidden => durable = usbMode
             /\ rebooting \/ running = usbMode
=============================================================================
