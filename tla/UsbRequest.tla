----------------------------- MODULE UsbRequest -----------------------------
(***************************************************************************)
(* What the USB stack promises the user of a usbreq_t (the comments of     *)
(* usb_queue_request, usb_wait_request and usb_complete_request in         *)
(* usbd.c): a queued request completes exactly once, not before the host   *)
(* controller has let go of every piece of its buffer; its status then     *)
(* stays what it is until the request is freed; "cancelled" is the status  *)
(* of requests to a device that is being removed, and of no others.        *)
(***************************************************************************)
CONSTANTS
  Req,        \* usbreq_t blocks
  IntrReq,    \* those whose callback frees them or queues them again
  Status      \* completion codes, "cancelled" and "noerr" among them

VARIABLES
  st,         \* "free", "busy" (ur_inprogress is set) or "done"
  status,     \* ur_status of the requests that are done
  held,       \* requests with a piece the driver has not taken back
  leaving     \* requests to a device that is being removed

vars == <<st, status, held, leaving>>

Init ==
  /\ st = [r \in Req |-> "free"]
  /\ status = [r \in Req |-> "noerr"]
  /\ held = {}
  /\ leaving = {}

(* usb_queue_request.                                                      *)
Queue(r) ==
  /\ st[r] = "free"
  /\ st' = [st EXCEPT ![r] = "busy"]
  /\ held' = held \cup {r}
  /\ UNCHANGED <<status, leaving>>

(* usb_complete_request of a request somebody waits for ...                *)
Complete(r, s) ==
  /\ st[r] = "busy" /\ r \notin IntrReq
  /\ s = "cancelled" <=> r \in leaving
  /\ st' = [st EXCEPT ![r] = "done"]
  /\ status' = [status EXCEPT ![r] = s]
  /\ held' = held \ {r}
  /\ leaving' = leaving \ {r}

(* ... and of one whose callback frees it, as the device goes away.        *)
Cancel(r) ==
  /\ st[r] = "busy" /\ r \in IntrReq /\ r \in leaving
  /\ st' = [st EXCEPT ![r] = "free"]
  /\ held' = held \ {r}
  /\ leaving' = leaving \ {r}
  /\ UNCHANGED status

(* usb_free_request.                                                       *)
Release(r) ==
  /\ st[r] = "done"
  /\ st' = [st EXCEPT ![r] = "free"]
  /\ status' = [status EXCEPT ![r] = "noerr"]
  /\ UNCHANGED <<held, leaving>>

(* A device is unplugged: the requests rs are the ones it still has.       *)
Unplug(rs) ==
  /\ leaving = {} /\ rs \subseteq held
  /\ leaving' = rs
  /\ UNCHANGED <<st, status, held>>

(* The device is gone, whatever is still pending on it.                    *)
Gone == leaving' = {} /\ UNCHANGED <<st, status, held>>

Next ==
  \/ \E r \in Req : Queue(r) \/ Cancel(r) \/ Release(r)
  \/ \E r \in Req, s \in Status : Complete(r, s)
  \/ \E rs \in SUBSET Req : Unplug(rs)
  \/ Gone

Spec == Init /\ [][Next]_vars
=============================================================================
