----------------------------- MODULE Connection -----------------------------
(***************************************************************************)
(* The instance of the Evolution API, with which WhatsApp is connected:    *)
(* people ask for a QR code, at the same time or again, and scan it.       *)
(*                                                                         *)
(* Each step of a request is one call of the API, and the answer decides   *)
(* on the next.  The proxy is one that is configured.                      *)
(***************************************************************************)
EXTENDS Integers

CONSTANTS Connects,    \* requests of evolution/connect
          MaxFaults    \* bound: calls that fail, connections that drop

VARIABLES
    instance,   \* at the Evolution API
    connect,    \* how far each request is
    faults,
    failed      \* history: requests with a call that failed

vars == <<instance, connect, faults, failed>>
-----------------------------------------------------------------------------
TypeOK ==
    /\ instance \in [exists: BOOLEAN, webhook: BOOLEAN, proxy: BOOLEAN, open: BOOLEAN]
    /\ instance.webhook \/ instance.proxy \/ instance.open => instance.exists
    /\ connect \in [Connects -> {"no", "check", "create", "webhook", "proxy", "qr", "over", "error"}]
    /\ faults \in 0..MaxFaults
    /\ failed \subseteq Connects

\* The instance is not there yet, was made by hand, or is in use.
Init ==
    /\ instance \in [exists: BOOLEAN, webhook: BOOLEAN, proxy: BOOLEAN, open: BOOLEAN]
    /\ instance.webhook \/ instance.proxy \/ instance.open => instance.exists
    /\ connect = [k \in Connects |-> "no"]
    /\ faults = 0 /\ failed = {}

Fault == faults < MaxFaults /\ faults' = faults + 1
Goes(k, pc) == connect' = [connect EXCEPT ![k] = pc]

Connect(k) ==
    /\ connect[k] = "no"
    /\ Goes(k, "check")
    /\ UNCHANGED <<instance, faults, failed>>

\* fetchConnectionStateSafe: only "not found" means that there is none.
CheckInstance(k) ==
    /\ connect[k] = "check"
    /\ \/ Goes(k, IF instance.exists THEN "webhook" ELSE "create") /\ UNCHANGED <<faults, failed>>
       \/ Fault /\ failed' = failed \cup {k} /\ Goes(k, "webhook")
    /\ UNCHANGED instance

\* That another request was faster is no error.
CreateInstance(k) ==
    /\ connect[k] = "create"
    /\ \/ /\ instance' = IF instance.exists THEN instance
                         ELSE [exists |-> TRUE, webhook |-> TRUE, proxy |-> TRUE, open |-> FALSE]
          /\ Goes(k, "webhook") /\ UNCHANGED <<faults, failed>>
       \/ Fault /\ failed' = failed \cup {k} /\ Goes(k, "error") /\ UNCHANGED instance

\* Mutant of Configured: what is there is left as it is.
ConfiguredOnce(what) == instance

Configured(what) == IF instance.exists THEN [instance EXCEPT ![what] = TRUE] ELSE instance

\* The webhook, then the proxy.  A failure is only logged.
Configure(k, what, next) ==
    /\ connect[k] = what
    /\ \/ instance' = Configured(what) /\ UNCHANGED <<faults, failed>>
       \/ Fault /\ failed' = failed \cup {k} /\ UNCHANGED instance
    /\ Goes(k, next)

GetQrCode(k) ==
    /\ connect[k] = "qr"
    /\ \/ Goes(k, "over") /\ UNCHANGED <<faults, failed>>
       \/ Fault /\ failed' = failed \cup {k} /\ Goes(k, "error")
    /\ UNCHANGED instance

ScanQrCode ==
    /\ instance.exists /\ ~instance.open
    /\ \E k \in Connects : connect[k] = "over"
    /\ instance' = [instance EXCEPT !.open = TRUE]
    /\ UNCHANGED <<connect, faults, failed>>

ConnectionDrops ==
    /\ instance.open /\ Fault
    /\ instance' = [instance EXCEPT !.open = FALSE]
    /\ UNCHANGED <<connect, failed>>
-----------------------------------------------------------------------------
Step(k) ==
    \/ Connect(k) \/ CheckInstance(k) \/ CreateInstance(k)
    \/ Configure(k, "webhook", "proxy") \/ Configure(k, "proxy", "qr") \/ GetQrCode(k)

Next == (\E k \in Connects : Step(k)) \/ ScanQrCode \/ ConnectionDrops

Spec == Init /\ [][Next]_vars
-----------------------------------------------------------------------------
(* Properties *)

\* Inductive: what a request without a failed call has behind it is done, and
\* stays done.
BehindIsDone ==
    \A k \in Connects \ failed :
        /\ connect[k] \in {"webhook", "proxy", "qr", "over"} => instance.exists
        /\ connect[k] \in {"proxy", "qr", "over"} => instance.webhook
        /\ connect[k] \in {"qr", "over"} => instance.proxy

\* A request to connect none of whose calls failed leaves an instance that
\* tells the CRM of messages and uses the proxy, whatever was there before and
\* whoever else was connecting.
ConnectedIsConfigured ==
    \A k \in Connects : (connect[k] = "over" /\ k \notin failed) =>
        instance.exists /\ instance.webhook /\ instance.proxy
=============================================================================
