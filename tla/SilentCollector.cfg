SPECIFICATION AwsSpec
CONSTANTS
    Region = {r1, r2}
    DegradedDefault = {r1}
    Collector = {sqs}
    RegionalModule = {kms}
    GlobalModule = {iam}
    MAX_FAULTS = 1
INVARIANTS NotAssessedIsRecorded
CHECK_DEADLOCK FALSE
