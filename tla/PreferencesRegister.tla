------------------------- MODULE PreferencesRegister -------------------------
(***************************************************************************)
(* What the server's handlers take the preferences for: a register, and    *)
(* every request that changes it an atomic update of its latest value, the *)
(* next one only after the last one was saved. A restart brings back what  *)
(* was saved; caught while saving, the server finds the preferences empty. *)
(* Backend implements it as long as one thread at a time handles requests. *)
(***************************************************************************)
EXTENDS FeedingPreferences

VARIABLES
  register,  \* the preferences as the handlers see them
  saved      \* the preferences as a restart would find them

registerVars == <<register, saved>>

RegisterInit ==
  /\ register \in Preferences
  /\ saved = register

Update(req) ==
  /\ saved = register
  /\ register' = Applied(register, req)
  /\ UNCHANGED saved

BeginSaving ==
  /\ saved' = DefaultPreferences
  /\ UNCHANGED register

Save ==
  /\ saved' = register
  /\ UNCHANGED register

Restart ==
  /\ register' = saved
  /\ UNCHANGED saved

RegisterNext ==
  \/ \E req \in Requests : Update(req)
  \/ BeginSaving \/ Save \/ Restart

RegisterSpec == RegisterInit /\ [][RegisterNext]_registerVars
==============================================================================
