SPECIFICATION Spec
CONSTANTS
    W = 4
    Values = {0, 1, 2, 3, 7, 9, 10, 15, 16, 17, 99, 100, 127, 128, 240, 255, 256, 257, 1000, 4095, 4096,
              4097, 9999, 10000, 21845, 32767, 32768, 43690, 61440, 65280, 65295, 65534, 65535}
    Bases = {2, 10}
    Sizes = {0, 1, 2, 5, 6, 8, 9, 16, 17}
INVARIANTS
    BigNumbersExact
    FormattingExact
    EncodingsReadBack
    RlpExact
