----------------------------- MODULE DriverLife -----------------------------
(***************************************************************************)
(* What the driver acquires when a device appears and gives back when the  *)
(* probe fails or the device goes: rsi_91x_init and rsi_91x_deinit, the    *)
(* probe and disconnect handlers of both busses, and mac80211's attach and *)
(* detach, of which the first runs in the receive thread at the end of the *)
(* boot.                                                                   *)
(*                                                                         *)
(* held is what exists; points is what the driver's pointers and           *)
(* thread_done flags say exists.  Releasing what a pointer still names but *)
(* no longer exists is recorded in misuse.                                 *)
(***************************************************************************)
EXTENDS Naturals, FiniteSets

CONSTANT LifeTroubles   \* the steps that may go wrong

VARIABLES
    line,       \* the bus: "sdio" or "usb"
    at,         \* where the kernel's probe or disconnect thread is
    held,       \* the resources that exist
    points,     \* the resources the driver's pointers name
    misuse,     \* the resources used or released while they did not exist
    troubles,   \* what went wrong so far
    card        \* "empty", "loaded" with its firmware, "booted" when mac80211 was told

lifeVars == <<line, at, held, points, misuse, troubles, card>>

Core == {"core", "workqueue", "tx_thread"}
Resources == Core \cup {"socket", "rsi_dev", "func", "irq", "temp_buf", "rx_thread",
                        "rx_urb", "inflight", "tx_buffer", "hw", "registered", "bands",
                        "dfsentry"}

(* The thread, callback or file that runs driver code needs what that code reads. *)
Needs == [r \in Resources |->
            CASE r \in {"tx_thread", "socket", "hw", "dfsentry"} -> {"core"}
              [] r \in {"rx_thread", "irq", "inflight"} -> {"core", "rsi_dev"}
              [] OTHER -> {}]

LifeInit ==
    /\ line \in {"sdio", "usb"} /\ at = "out"
    /\ held = {} /\ points = {} /\ misuse = {} /\ troubles = {} /\ card = "empty"

Moves(place) == at' = place
NoTrouble == UNCHANGED troubles
Fails(t) == t \in LifeTroubles /\ troubles' = troubles \cup {t}

Acquire(S) == held' = held \cup S /\ points' = points \cup S /\ UNCHANGED misuse

(* Give back what the pointers of S name; a pointer that is NULL releases nothing. *)
Release(S) ==
    /\ held' = held \ (S \cap points)
    /\ misuse' = misuse \cup ((S \cap points) \ held)
    /\ points' = points \ S

KeepsAll == UNCHANGED <<held, points, misuse>>
-----------------------------------------------------------------------------
(* rsi_91x_init.  Its error exit frees common and adapter and nothing else; a     *)
(* workqueue or a netlink socket that could not be made goes unnoticed.           *)
OsInit ==
    /\ at = "out"
    /\ \/ /\ Fails("no_memory") /\ Moves("gone") /\ KeepsAll
       \/ /\ Fails("pins") /\ Moves("gone") /\ Acquire({"workqueue"})
       \/ /\ Fails("no_tx_thread") /\ Moves("gone") /\ Acquire({"workqueue"})
       \/ /\ Fails("coex") /\ Moves("gone") /\ Acquire({"workqueue", "tx_thread"})
       \/ /\ Fails("workqueue") /\ Moves("interface")
          /\ held' = {"core", "tx_thread", "socket"} /\ points' = Core \cup {"socket"}
          /\ UNCHANGED misuse
       \/ /\ Fails("socket") /\ Moves("interface") /\ Acquire(Core)
       \/ /\ NoTrouble /\ Moves("interface") /\ Acquire(Core \cup {"socket"})
    /\ UNCHANGED <<line, card>>

(* rsi_91x_deinit; the USB disconnect then reads the adapter it has just freed. *)
OsDeinit ==
    /\ at \in {"free_adapter", "core"} /\ Moves("gone")
    /\ LET S == Core \cup {"socket", "rsi_dev"} IN
         /\ held' = held \ (S \cap points) /\ points' = points \ S
         /\ misuse' = misuse \cup ((S \cap points) \ held)
                        \cup (IF line = "usb" /\ at = "core" THEN {"core"} ELSE {})
    /\ NoTrouble /\ UNCHANGED <<line, card>>

BadMode ==
    /\ at = "interface" /\ Fails("mode") /\ Moves("free_adapter") /\ KeepsAll
    /\ UNCHANGED <<line, card>>
-----------------------------------------------------------------------------
(* rsi_init_sdio_interface and the device id, which is refused without disabling *)
(* the function again.                                                           *)
SdioInterface ==
    /\ line = "sdio" /\ at = "interface"
    /\ \/ /\ Fails("no_memory") /\ Moves("free_adapter") /\ KeepsAll
       \/ /\ Fails("bus") /\ Moves("free_adapter") /\ Acquire({"rsi_dev"})
       \/ /\ Fails("id") /\ Moves("free_adapter") /\ Acquire({"rsi_dev", "func"})
       \/ /\ NoTrouble /\ Moves("receive") /\ Acquire({"rsi_dev", "func"})
    /\ UNCHANGED <<line, card>>

(* The receive thread, the spare buffer and the interrupt. *)
SdioReceive ==
    /\ line = "sdio" /\ at = "receive"
    /\ \/ /\ Fails("no_rx_thread") /\ Moves("kill_thread") /\ KeepsAll
       \/ /\ Fails("irq") /\ Moves("claim_irq") /\ Acquire({"rx_thread", "temp_buf"})
       \/ /\ NoTrouble /\ Moves("load") /\ Acquire({"rx_thread", "temp_buf", "irq"})
       \/ /\ Fails("no_memory") /\ Moves("load") /\ Acquire({"rx_thread", "irq"})
    /\ UNCHANGED <<line, card>>

(* rsi_hal_device_init, then rsi_sdio_master_access_msword while the card boots. *)
SdioLoad ==
    /\ line = "sdio" /\ at \in {"load", "msword"}
    /\ \/ Fails("load") /\ Moves("dev_init") /\ UNCHANGED card
       \/ at = "load" /\ NoTrouble /\ Moves("msword") /\ card' = "loaded"
       \/ at = "msword" /\ NoTrouble /\ Moves("up") /\ UNCHANGED card
    /\ KeepsAll /\ UNCHANGED line

(* The label claim_irq falls through past the one that disables the function. *)
SdioUnwind_Skips ==
    /\ line = "sdio"
    /\ \/ at = "dev_init" /\ Release({"irq"}) /\ Moves("claim_irq")
       \/ at = "claim_irq" /\ Release({"rx_thread", "temp_buf"}) /\ Moves("free_adapter")
       \/ at = "kill_thread" /\ Release({"func"}) /\ Moves("free_adapter")
    /\ NoTrouble /\ UNCHANGED <<line, card>>

(* The labels of rsi_probe, each falling through to the next. *)
SdioUnwind ==
    /\ line = "sdio"
    /\ \/ at = "dev_init" /\ Release({"irq"}) /\ Moves("claim_irq")
       \/ at = "claim_irq" /\ Release({"rx_thread", "temp_buf"}) /\ Moves("kill_thread")
       \/ at = "kill_thread" /\ Release({"func"}) /\ Moves("free_adapter")
    /\ NoTrouble /\ UNCHANGED <<line, card>>
-----------------------------------------------------------------------------
(* rsi_init_usb_interface.  Without a receive URB it returns the status of the    *)
(* step before, 0; without a thread it stops the error pointer it got for one.    *)
UsbInterface ==
    /\ line = "usb" /\ at = "interface"
    /\ \/ /\ Fails("no_memory") /\ Moves("free_adapter") /\ KeepsAll
       \/ /\ Fails("endpoints") /\ Moves("free_adapter") /\ Acquire({"rsi_dev"})
       \/ /\ Fails("urb") /\ Moves("oops")
          /\ held' = held \cup {"rsi_dev"}
          /\ points' = points \cup {"rsi_dev", "tx_buffer"}
          /\ misuse' = misuse \cup {"rx_urb"}
       \/ /\ Fails("no_rx_thread") /\ Moves("free_adapter")
          /\ held' = held \cup {"rsi_dev", "rx_urb"}
          /\ points' = points \cup {"rsi_dev", "rx_urb"}
          /\ misuse' = misuse \cup {"rx_thread"}
       \/ /\ NoTrouble /\ Moves("submit")
          /\ Acquire({"rsi_dev", "tx_buffer", "rx_urb", "rx_thread"})
    /\ UNCHANGED <<line, card>>

(* The id, the early submission when the endpoint is ready, the status register. *)
UsbSubmit ==
    /\ line = "usb" /\ at = "submit"
    /\ \/ Fails("id") /\ Moves("err1") /\ KeepsAll
       \/ NoTrouble /\ Moves("load") /\ KeepsAll
       \/ NoTrouble /\ Moves("load") /\ Acquire({"inflight"})
    /\ UNCHANGED <<line, card>>

UsbLoad ==
    /\ line = "usb" /\ at = "load"
    /\ \/ Fails("load") /\ Moves("err1") /\ UNCHANGED card
       \/ NoTrouble /\ Moves("msword") /\ card' = "loaded"
    /\ KeepsAll /\ UNCHANGED line

(* The submission that did not come early, and the one of a Bluetooth build. *)
UsbLate ==
    /\ line = "usb" /\ at = "msword"
    /\ \/ Fails("submit") /\ Moves("err1") /\ KeepsAll
       \/ NoTrouble /\ Moves("up") /\ Acquire({"inflight"})
    /\ UNCHANGED <<line, card>>

(* rsi_deinit_usb_interface: the URB is given back, never withdrawn. *)
UsbDeinit ==
    /\ line = "usb" /\ at \in {"err1", "lower"}
    /\ Release({"rx_thread", "rx_urb", "tx_buffer"})
    /\ Moves(IF at = "err1" THEN "free_adapter" ELSE "core")
    /\ NoTrouble /\ UNCHANGED <<line, card>>
-----------------------------------------------------------------------------
(* The last boot confirm has the receive thread call rsi_mac80211_attach.  A      *)
(* registration that fails keeps the unregistered hw; a debugfs directory that    *)
(* fails frees dfsentry and leaves its pointer.                                   *)
Served ==
    /\ card = "loaded" /\ "rx_thread" \in held
    /\ line = "sdio" => at \in {"msword", "up", "leave", "dev_init", "claim_irq"}
    /\ line = "usb" =>
         /\ at \in {"msword", "up", "leave", "detach", "lower", "err1"}
         /\ at \in {"msword", "err1"} => "inflight" \in held

(* The probe or the disconnect is past its call of rsi_mac80211_detach, or has none. *)
TooLate == at \in {"dev_init", "claim_irq", "err1", "lower"}

Attach ==
    /\ Served /\ card' = "booted" /\ UNCHANGED <<line, at>>
    /\ LET late == IF TooLate THEN {"late_boot"} ELSE {} IN
         /\ late \subseteq LifeTroubles
         /\ \/ /\ troubles' = troubles \cup late
               /\ Acquire({"hw", "registered", "bands", "dfsentry"})
            \/ /\ "register" \in LifeTroubles /\ troubles' = troubles \cup late \cup {"register"}
               /\ Acquire({"hw", "bands"})
            \/ /\ "dir" \in LifeTroubles /\ troubles' = troubles \cup late \cup {"dir"}
               /\ held' = held \cup {"hw", "registered", "bands"}
               /\ points' = points \cup {"hw", "registered", "bands", "dfsentry"}
               /\ UNCHANGED misuse

(* The detach frees the bands only and leaves mac80211 registered. *)
Detach_Registered ==
    /\ at = "detach" /\ Moves(IF line = "sdio" THEN "disable" ELSE "lower")
    /\ Release({"bands", "dfsentry"})
    /\ NoTrouble /\ UNCHANGED <<line, card>>

(* rsi_mac80211_detach: with an hw it unregisters, whether it was registered or not. *)
Detach ==
    /\ at = "detach" /\ Moves(IF line = "sdio" THEN "disable" ELSE "lower")
    /\ LET S == {"hw", "registered", "bands", "dfsentry"} IN
         /\ held' = held \ (S \cap points) /\ points' = points \ S
         /\ misuse' = misuse \cup ((S \cap points) \ held)
              \cup (IF "hw" \in points /\ "registered" \notin held THEN {"registered"} ELSE {})
    /\ NoTrouble /\ UNCHANGED <<line, card>>

(* A packet rsi_read_pkt refuses ends the SDIO receive thread, thread_done unset. *)
ReadFails ==
    /\ line = "sdio" /\ at \in {"msword", "up"} /\ {"rx_thread", "irq"} \subseteq held
    /\ Fails("read") /\ held' = held \ {"rx_thread"}
    /\ UNCHANGED <<line, at, points, misuse, card>>
-----------------------------------------------------------------------------
(* The device goes; the USB core has flushed its endpoints by then. *)
Unplug ==
    /\ at = "up" /\ Moves("leave")
    /\ held' = held \ {"inflight"} /\ points' = points \ {"inflight"} /\ UNCHANGED misuse
    /\ NoTrouble /\ UNCHANGED <<line, card>>

SdioDisconnect ==
    /\ line = "sdio"
    /\ \/ at = "leave" /\ Release({"rx_thread"}) /\ Moves("irq")
       \/ at = "irq" /\ Release({"irq", "temp_buf"}) /\ Moves("detach")
       \/ at = "disable" /\ Release({"func"}) /\ Moves("core")
    /\ NoTrouble /\ UNCHANGED <<line, card>>

(* The tx thread is stopped without being marked done. *)
UsbDisconnect_Unmarked ==
    /\ line = "usb" /\ at = "leave" /\ Moves("detach")
    /\ held' = held \ {"tx_thread"} /\ UNCHANGED <<points, misuse>>
    /\ NoTrouble /\ UNCHANGED <<line, card>>

(* The tx thread is stopped first: no frame of the detach reaches the bus. *)
UsbDisconnect ==
    /\ line = "usb" /\ at = "leave" /\ Release({"tx_thread"}) /\ Moves("detach")
    /\ NoTrouble /\ UNCHANGED <<line, card>>

LifeNext ==
    \/ OsInit \/ OsDeinit \/ BadMode
    \/ SdioInterface \/ SdioReceive \/ SdioLoad \/ SdioUnwind \/ SdioDisconnect
    \/ UsbInterface \/ UsbSubmit \/ UsbLoad \/ UsbLate \/ UsbDeinit \/ UsbDisconnect
    \/ Attach \/ Detach \/ ReadFails \/ Unplug

LifeSpec == LifeInit /\ [][LifeNext]_lifeVars
-----------------------------------------------------------------------------
LifeTypeOK ==
    /\ line \in {"sdio", "usb"}
    /\ at \in {"out", "interface", "receive", "load", "msword", "submit", "up",
              "dev_init", "claim_irq", "kill_thread", "free_adapter", "err1",
              "leave", "irq", "detach", "disable", "lower", "core", "gone", "oops"}
    /\ held \subseteq Resources /\ points \subseteq Resources /\ misuse \subseteq Resources
    /\ troubles \subseteq LifeTroubles /\ card \in {"empty", "loaded", "booted"}

Without(S) == troubles \cap S = {}

(* The boot ended after the detach of a disconnect, or before a probe that fails:    *)
(* a failing probe never detaches mac80211.                                          *)
BootOvertook ==
    card = "booted" /\ troubles \cap {"late_boot", "load", "submit"} # {}

(* The failing steps whose exit forgets something: the early ones of rsi_91x_init  *)
(* its workqueue, an unknown SDIO id the enabled function, a missing USB receive   *)
(* thread the URB.                                                                 *)
Forgetful ==
    {"pins", "no_tx_thread", "coex"} \cup (IF line = "sdio" THEN {"id"} ELSE {"no_rx_thread"})

(* Whatever step of a probe fails, and whenever the device goes, everything        *)
(* acquired is given back, up to a transfer in flight.                             *)
LeftNothing ==
    (at = "gone" /\ ~ BootOvertook /\ Without(Forgetful)) => held \subseteq {"inflight"}

(* Nothing is released twice, or released or used without existing; but for the   *)
(* workqueue, the unregistered hw, the debugfs directory, the ended receive       *)
(* thread and the missing URB or thread named here, and but for the adapter the   *)
(* USB disconnect reads last (usb.c:1004).                                        *)
NothingTwice ==
    Without({"workqueue", "register", "dir", "read", "urb"} \cup (Forgetful \ {"id"}))
        => misuse \subseteq (IF line = "usb" /\ at = "gone" THEN {"core"} ELSE {})

(* A thread, an interrupt, a transfer or a subsystem that calls into the driver   *)
(* never outlives what it reads; but for a boot that ends after the detach, a     *)
(* failed coexistence start, and a receive transfer the probe forgot about.       *)
CallersServed ==
    /\ (Without({"coex"}) /\ ~ BootOvertook) =>
         \A r \in held \ {"inflight"} : Needs[r] \subseteq held
    /\ ("inflight" \in held /\ ~ (Needs["inflight"] \subseteq held))
         => at = "gone" /\ troubles # {}

(* The three statements about what is acquired, released and called back. *)
LifeInv == LeftNothing /\ NothingTwice /\ CallersServed
=============================================================================
