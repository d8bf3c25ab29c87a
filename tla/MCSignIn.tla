------------------------------- MODULE MCSignIn -------------------------------
(* SignIn for TLC: which page is open in which browser.                     *)
EXTENDS SignIn, TLC

CONSTANTS laptop, phone, tab1, tab2, alice, bob, carol

\* One page, in the first browser.
OnLaptop == tab1 :> laptop

\* Two tabs of one browser, which share its cookies.
TwoTabs == (tab1 :> laptop) @@ (tab2 :> laptop)

\* Operators differ in no constant.
OperatorSymmetry == Permutations(Principals)
===============================================================================
