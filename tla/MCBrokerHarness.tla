---------------------------- MODULE MCBrokerHarness ----------------------------
\* Two events of one project and two workers.
EXTENDS BrokerHarness_proofs

CONSTANTS e1, e2, w1, w2

MCContents == {"queued", "published"} \X {e1, e2}

=============================================================================
