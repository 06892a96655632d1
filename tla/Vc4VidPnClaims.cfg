\* Claims that the code does not keep (README, section 7).
\* One at a time: TLC stops at the first counterexample.
SPECIFICATION VidPnSpec
INVARIANT EmptyCommitClears
\* INVARIANT RotationSupportReported
