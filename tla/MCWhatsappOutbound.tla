------------------------- MODULE MCWhatsappOutbound -------------------------
(* Instances of WhatsappOutbound for TLC.                                  *)
EXTENDS WhatsappOutbound, TLC

\* Rows, overlapping runs and acknowledgements are interchangeable.
Symmetry == Permutations(Messages) \cup Permutations(Runs)
              \cup Permutations(Hooks)

\* Nothing is promised any more once a temporary failure overtook the answer
\* to its call, which is never forgotten: such states have no successors here.
StillPromised == ~overtaken
=============================================================================
