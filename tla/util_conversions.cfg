\* to_dec over every 12-bit number; base64_encode over 340 byte strings.
CONSTANTS
    WordBits = 3
    Numbers <- MCNumbers
    ByteStrings <- MCByteStrings
SPECIFICATION Spec
INVARIANT ToDecCorrect
INVARIANT Base64Correct
CHECK_DEADLOCK FALSE
