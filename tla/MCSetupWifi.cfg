\* Tests, scans, joins and connections that come and go, in every order, under
\* the fairness of the two tasks.
SPECIFICATION FairSpec
CONSTANTS
    AP = {a1, a2}
    NoSsid = NoSsid
    MaxEvents = 2
INVARIANTS TypeOK QuietBetweenTests FreshTestReportsItsOwn OnlyARetryPanics LeftoverIsOfLastTest
PROPERTIES TestEnds RetriesStop
