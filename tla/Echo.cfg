SPECIFICATION Spec
CONSTANTS
    Capacity = 5
    Greeting = 1
    MaxPayload = 6
INVARIANTS
    TypeOK
    PublishedIsUtf8
    PublishedIsEcho
\* The loop ends with the session, or with a panic.
CHECK_DEADLOCK FALSE
