\* README.md:463 against a program that does not take its input.
SPECIFICATION LiveSpec
PROPERTY
    LimitEnforced
