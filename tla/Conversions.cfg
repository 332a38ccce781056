SPECIFICATION Spec
CONSTANTS
    Width = 65536
    Chars = {0, 77, 170, 255}
    MaxText = 6
    Numbers <- MCNumbers
    Days = 5
    Forward = 25
    Back = 73
    StandardOffset = 1
INVARIANTS EncodesText RoundTrip RestartsDaily
