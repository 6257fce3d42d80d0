------------------------------- MODULE MCAIChain -------------------------------
(* An instance of AIChain: whom humans and personas write to.              *)
EXTENDS AIChain

\* A human writes to the first persona or to everyone.
ToOneOrAll == {1, All}

\* A persona asks something or says something.
AskOrSay == {Question, Plain}
=============================================================================
