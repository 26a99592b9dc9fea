----------------------------- MODULE MCDonatedData -----------------------------
\* Sample exports for TLC: of two rows, the first with a date in any form and a
\* link to anywhere, the second as good as can be.
EXTENDS DonatedData

SampleRows ==
    {r \in [form : Forms, at : {3}, target : LinkTargets, video : {7, 8}] :
        r.target # "video" => r.video = 7}
LastRow == [form |-> "plain", at |-> 2, target |-> "video", video |-> 8]
SampleExports == {<<r, LastRow>> : r \in SampleRows}
EarlySamples == {<<LastRow, LastRow>>}
=============================================================================
