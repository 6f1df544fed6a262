SPECIFICATION HostSpec
CONSTANTS
    Word = {zero, w1}
    Zero = zero
    NoWord = noword
    MaxPolls = 2
    Uses <- MCBlock
PROPERTIES
    AtMostTwoQueued
