----------------------------- MODULE WebhookHandler -----------------------------
(***************************************************************************)
(* WebhookHandler.handle_inbound (protocols/webhook_handler.py): webhooks  *)
(* are delivered, and delivered again by a sender that got no answer, each *)
(* delivery a task of its own.  The id is looked up before the             *)
(* application's handler is awaited and recorded after it.  How deliveries *)
(* are let in (their age, their signature) is a choice: those refused are  *)
(* answered with an error before the lookup.                               *)
(***************************************************************************)
EXTENDS Naturals, FiniteSets

CONSTANTS
  Deliveries, (* the deliveries                                              *)
  Webhooks,   (* the ids that they carry                                     *)
  Anonymous   (* stands for a delivery without id                            *)

VARIABLES
  carries,  (* delivery -> its id                                            *)
  doing,    (* delivery -> "new", "handling", or its answer                  *)
  store,    (* idempotency_store                                             *)
  handled,  (* deliveries that the application has handled                   *)
  met,      (* delivery -> those that were handling when it came             *)
  cleared   (* ids that overflow protection took from the store              *)

wVars == <<carries, doing, store, handled, met, cleared>>

Answers == {"accepted", "duplicate", "refused"}

Init ==
  /\ carries \in [Deliveries -> Webhooks \union {Anonymous}]
  /\ doing = [d \in Deliveries |-> "new"]
  /\ store = {} /\ handled = {} /\ cleared = {}
  /\ met = [d \in Deliveries |-> {}]

To(d, what) == doing' = [doing EXCEPT ![d] = what]
Known(d) == carries[d] # Anonymous /\ carries[d] \in store
Record(d) == store' = IF carries[d] = Anonymous THEN store ELSE store \union {carries[d]}
Handling == {o \in Deliveries : doing[o] = "handling"}

------------------------------------------------------------------------------
(* Faults: wrong versions of definitions below, which the runs swap in.     *)

(* the id is recorded as soon as it is looked up *)
RecordFirst(d) == Record(d)
------------------------------------------------------------------------------
(* Up to the handler's await: too old or not signed, a duplicate, or on to  *)
(* the handler.                                                             *)
Refuse(d) ==
  /\ doing[d] = "new" /\ To(d, "refused")
  /\ UNCHANGED <<carries, store, handled, met, cleared>>

FindDuplicate(d) ==
  /\ doing[d] = "new" /\ Known(d) /\ To(d, "duplicate")
  /\ UNCHANGED <<carries, store, handled, met, cleared>>

OnLookup(d) == UNCHANGED store
BeginHandling(d) ==
  /\ doing[d] = "new" /\ ~Known(d)
  /\ To(d, "handling") /\ met' = [met EXCEPT ![d] = Handling]
  /\ OnLookup(d)
  /\ UNCHANGED <<carries, handled, cleared>>

(* The handler is done, or raises: then, as for a refusal, the sender has   *)
(* an error (of whichever type) and nothing is recorded.                    *)
Handled(d) ==
  /\ doing[d] = "handling" /\ To(d, "accepted")
  /\ handled' = handled \union {d} /\ Record(d)
  /\ UNCHANGED <<carries, met, cleared>>

HandlerFails(d) ==
  /\ doing[d] = "handling" /\ To(d, "refused")
  /\ UNCHANGED <<carries, store, handled, met, cleared>>

(* clear_expired_idempotency: at its limit the store is emptied whole.      *)
Clear ==
  /\ store # {} /\ store' = {} /\ cleared' = cleared \union store
  /\ UNCHANGED <<carries, doing, handled, met>>

Deliver(d) == Refuse(d) \/ FindDuplicate(d) \/ BeginHandling(d) \/ Handled(d) \/ HandlerFails(d)
Next == Clear \/ \E d \in Deliveries : Deliver(d)

------------------------------------------------------------------------------
(* A sender that is told its webhook was accepted, or is a duplicate, may   *)
(* forget it: some delivery of it was handled to the end.  And it is        *)
(* handled twice only by deliveries that overlapped, or after the store was *)
(* emptied (the lookup and the recording of handle_inbound).                *)
WebhookInv ==
  /\ \A d \in Deliveries : doing[d] \in {"accepted", "duplicate"} =>
       d \in handled \/ \E o \in handled : carries[o] = carries[d]
  /\ \A d, o \in handled : d # o /\ carries[d] = carries[o] =>
       \/ d \in met[o] \/ o \in met[d]
       \/ carries[d] \in cleared \union {Anonymous}
==============================================================================
