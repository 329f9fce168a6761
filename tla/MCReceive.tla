------------------------------- MODULE MCReceive -------------------------------
(* The Receive screen for TLC, with its own name for nil and for its           *)
(* specifications, so that the screen can be put beside another one.           *)
EXTENDS Naturals

CONSTANTS Addresses, NoAddress, MaxClicks
ASSUME MCReceiveAssumption == NoAddress \notin Addresses /\ MaxClicks \in Nat

VARIABLES all, archived, saved, page, activeKeys, archivedKeys, ui, new, labelled, failed

Receive == INSTANCE ReceiveAddresses WITH None <- NoAddress

ReceiveSpec == Receive!Spec
FairReceiveSpec == Receive!FairSpec

\* What is archived, requested for or labelled from the options is the address
\* that is shown.
ActsOnTheShownAddress == Receive!ActsOnTheShownAddress

\* A label is never given to another address than the one that was shown.
LabelNotMisplaced == Receive!LabelNotMisplaced

\* When nothing is under way the lists on the screen are the wallet's, unless a
\* refetch failed.
ListIsCurrent == Receive!ListIsCurrent

\* An address that was generated leads to a prompt, unless the app is left or a
\* refetch fails.
NewAddressIsPrompted == Receive!NewAddressIsPrompted
================================================================================
