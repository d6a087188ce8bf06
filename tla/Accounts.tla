------------------------------ MODULE Accounts ------------------------------
(***************************************************************************)
(* What the application keeps for a person: the account and the library of *)
(* solutions in the database, and, in the Streamlit interface, the session *)
(* and the form of the intent page.  None of them touches what another     *)
(* keeps, so a behaviour is one of either kind.                            *)
(***************************************************************************)
EXTENDS SignIn, Solutions, Session, IntentForm

AccountsInit == Init /\ SolutionsInit /\ SessionInit /\ FormInit

NoSignIn  == now = 1 /\ account = NoAccount /\ \A r \in Requests : step[r] = "idle"
NoLibrary == admins = {} /\ \A q \in Visits : at[q] = "idle"

SignInStep == /\ NoLibrary /\ SessionInit /\ FormInit
              /\ Next
              /\ UNCHANGED <<solutionVars, sessionVars, formVars>>

LibraryStep == /\ NoSignIn /\ SessionInit /\ FormInit
               /\ SolutionsNext
               /\ UNCHANGED <<vars, sessionVars, formVars>>

SessionStep == /\ NoSignIn /\ NoLibrary /\ FormInit
               /\ SessionNext
               /\ UNCHANGED <<vars, solutionVars, formVars>>

FormStep == /\ NoSignIn /\ NoLibrary /\ SessionInit
            /\ FormNext
            /\ UNCHANGED <<vars, solutionVars, sessionVars>>

AccountsNext == SignInStep \/ LibraryStep \/ SessionStep \/ FormStep

AccountsSpec == AccountsInit /\ [][AccountsNext]_<<vars, solutionVars, sessionVars, formVars>>
=============================================================================
