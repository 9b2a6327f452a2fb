------------------------------- MODULE Wallet -------------------------------
(***************************************************************************)
(* The page's connection to the wallet: WalletProvider and the header.     *)
(* stacksConnect (external) asks the user and leaves the chosen account in *)
(* the browser's storage, which outlives the page.  A transaction may ask  *)
(* as well as the header, so that several calls can be open at once.       *)
(***************************************************************************)
EXTENDS Naturals

CONSTANTS Accounts,      \* the wallet's accounts
          NoAddress      \* null

ASSUME WalletAssumption == NoAddress \notin Accounts

VARIABLES
    connected, connecting, stxAddress,  \* WalletProvider's state
    storage,     \* the account in the browser's storage, or NoAddress
    asked        \* calls of stacksConnect not answered yet

walletVars == <<connected, connecting, stxAddress, storage, asked>>

\* The provider's state and its first effect: what the storage holds is shown.
ShowStored(account) ==
    /\ connected = (account # NoAddress)
    /\ stxAddress = account

WalletInit ==
    /\ storage \in Accounts \cup {NoAddress}
    /\ ShowStored(storage)
    /\ connecting = FALSE
    /\ asked = 0

\* connect, up to its await.
Connect ==
    /\ connecting' = TRUE
    /\ asked' = asked + 1
    /\ UNCHANGED <<connected, stxAddress, storage>>

\* The rest of connect once the user has chosen an account ...
ConnectDone(account) ==
    /\ asked > 0
    /\ asked' = asked - 1
    /\ connecting' = FALSE
    /\ storage' = account
    /\ connected' = TRUE
    /\ stxAddress' = account

\* Mutant: the flag is reset only when the call succeeds.
ConnectFailedStuck ==
    /\ asked > 0
    /\ asked' = asked - 1
    /\ UNCHANGED <<connecting, connected, stxAddress, storage>>

\* ... or has refused, which is reported to the user and to no caller.
ConnectFailed ==
    /\ asked > 0
    /\ asked' = asked - 1
    /\ connecting' = FALSE
    /\ UNCHANGED <<connected, stxAddress, storage>>

\* The header shows the connect button to whom is not connected.
ConnectOffered == ~ connected /\ ~ connecting

\* Mutant: the storage is not cleared.
DisconnectPage ==
    /\ connected
    /\ connected' = FALSE
    /\ stxAddress' = NoAddress
    /\ UNCHANGED <<connecting, storage, asked>>

\* The button in the profile dialog, which only a connected user has.
Disconnect ==
    /\ connected
    /\ storage' = NoAddress
    /\ connected' = FALSE
    /\ stxAddress' = NoAddress
    /\ UNCHANGED <<connecting, asked>>

\* The page is loaded anew; open calls of connect are gone with the old one.
WalletReload ==
    /\ connected' = (storage # NoAddress)
    /\ stxAddress' = storage
    /\ connecting' = FALSE
    /\ asked' = 0
    /\ UNCHANGED storage

-----------------------------------------------------------------------------
(* Properties *)

\* Whatever connects, disconnects and reloads overlap, the page shows the
\* account that is stored, so that a reload changes nothing the user sees.
PageMatchesStorage ==
    /\ storage \in Accounts \cup {NoAddress}
    /\ ShowStored(storage)

\* The connect button is never left disabled: it is only while a call is open.
ConnectButtonFree == connecting => asked > 0

=============================================================================
